---- MODULE Spec2Model ----
(***************************************************************************)
(* A model of meld's convergence engine: the advisor pool with its retry   *)
(* policy (advisors.py), the convergence detector (convergence.py), the    *)
(* orchestrator's round loop (orchestrator.py) and the part of the session *)
(* manager the loop drives (session.py).                                   *)
(*                                                                         *)
(* The specifications share the variables:                                 *)
(*   DetectorSpec  calls of ConvergenceDetector.check_convergence with     *)
(*                 arbitrary arguments (ThresholdSpec: around the diff     *)
(*                 thresholds; ParseSpec: on extracted reports);           *)
(*   PoolSpec      calls of AdvisorPool.collect_feedback, the three        *)
(*                 advisor tasks interleaved at their await points         *)
(*                 (RetrySpec: one task's retry loop, any result);         *)
(*   SessionSpec   a SessionManager on its own (SaveSpec: its saves in     *)
(*                 steps, with the signal handler in between);             *)
(*   Spec          Orchestrator.run, from construction to the returned     *)
(*                 MeldResult or the raised RuntimeError, with the signal  *)
(*                 handler firing at any await point (DegradedSpec: with   *)
(*                 advisors that fail for good; ResumeSpec: followed by a  *)
(*                 second Orchestrator on the same session).               *)
(***************************************************************************)
EXTENDS Integers, Sequences, FiniteSets, TLC

VARIABLES
    \* ConvergenceDetector
    plan_history,      \* self._plan_history
    min_rounds,        \* self._min_rounds
    check,             \* the last check_convergence call: arguments and result
    \* AdvisorPool
    adv,               \* per adapter: the coroutine _invoke_with_retry of this call
    pool_round,        \* round_number argument of the collect_feedback in progress
    advisor_results,   \* the list collect_feedback returned (<<>> before it returns)
    finish_order,      \* adapters in the order their coroutines finished
    fail_budget,       \* failed attempts the environment may still produce
    \* Orchestrator.run
    pc,                \* the await point run() is suspended at
    max_rounds,        \* self._max_rounds
    round_num,         \* loop variable round_num
    final_round,       \* local final_round
    current_plan,      \* local current_plan
    all_participants,  \* local all_participants
    converged,         \* local converged
    interrupted,       \* self._interrupted
    interrupted_in,    \* where run() was when the flag was set: await point and round
    terminal,          \* which exit the round loop took
    log,               \* per completed round: synthesized plan, self-report, verdict
    meld_result,       \* the MeldResult returned (None before)
    raised,            \* the exception run() raised to its caller (None before)
    extracted,         \* the last _extract_convergence call: its output argument, its end
    data,              \* local data of the _save_metadata call in progress (none outside)
    \* SessionManager
    session            \* metadata, plan snapshots, final plan, persisted record

vars == <<plan_history, min_rounds, check, adv, pool_round, advisor_results,
          finish_order, fail_budget, pc, max_rounds, round_num, final_round,
          current_plan, all_participants, converged, interrupted, interrupted_in,
          terminal, log, meld_result, raised, extracted, data, session>>

detector_vars == <<plan_history, min_rounds, check>>
pool_vars == <<adv, pool_round, advisor_results, finish_order, fail_budget>>
run_vars == <<pc, max_rounds, round_num, final_round, current_plan, all_participants,
              converged, interrupted, interrupted_in, terminal, log, meld_result, raised,
              extracted, data, session>>

None == "None"    \* an absent string-valued field

(***************************************************************************)
(* Plan texts.  A text is a sequence of tokens: NL is a line break, any    *)
(* other token stands for a non-empty run of characters without one.       *)
(***************************************************************************)
NL == 0

RECURSIVE JoinLines(_)
JoinLines(ls) ==
    IF ls = <<>> THEN <<>>
    ELSE IF Len(ls) = 1 THEN ls[1]
    ELSE ls[1] \o <<NL>> \o JoinLines(Tail(ls))

\* str.splitlines(): the text cut at every line break; a text that ends with a
\* line break has no empty last line, and the empty text has no line at all.
RECURSIVE SplitAcc(_, _, _)
SplitAcc(text, cur, acc) ==
    IF text = <<>> THEN (IF cur = <<>> THEN acc ELSE Append(acc, cur))
    ELSE IF Head(text) = NL THEN SplitAcc(Tail(text), <<>>, Append(acc, cur))
    ELSE SplitAcc(Tail(text), Append(cur, Head(text)), acc)

SplitLines(text) == SplitAcc(text, <<>>, <<>>)

Replace(ls, i, l) == [ls EXCEPT ![i] = l]

PlanLen == 25
BaseLines == [i \in 1..PlanLen |-> <<i>>]

\* The plan texts of the model, by name
PlanText ==
    [A  |-> JoinLines(BaseLines),                                  \* 25 lines
     A1 |-> JoinLines(Append(BaseLines, <<96>>)),                  \* A, one line added
     A2 |-> JoinLines(Replace(BaseLines, 13, <<99>>)),             \* A, one line rewritten
     A3 |-> JoinLines(Replace(Replace(BaseLines, 13, <<99>>), 5, <<98>>)),
     A4 |-> JoinLines(Replace(Replace(Replace(BaseLines, 13, <<99>>), 5, <<98>>), 20, <<97>>)),
     B  |-> JoinLines(<<<<101>>, <<102>>, <<103>>>>),              \* an unrelated text
     Bn |-> JoinLines(<<<<101>>, <<102>>, <<103>>>>) \o <<NL>>,    \* B, line break at the end
     E  |-> <<>>]                                                  \* the empty text

\* Plans are held by name; the names denote pairwise different texts.
AllPlans == DOMAIN PlanText
PlanA == "A"
PlanA1 == "A1"
PlanA2 == "A2"
PlanA3 == "A3"
PlanA4 == "A4"
PlanB == "B"
PlanBn == "Bn"
PlanE == "E"

\* Texts handed to the detector directly, and texts a synthesizer returns
\* (Melder._extract_plan strips the text, so these end with no line break).
DetectorPlans == {PlanA, PlanA1, PlanA4}
RunPlans == {PlanA, PlanA1, PlanB}

(***************************************************************************)
(* difflib.SequenceMatcher(None, a, b).ratio() over lists of lines (no     *)
(* junk; the autojunk heuristic needs 200 or more lines).                  *)
(***************************************************************************)
RECURSIVE RunLen(_, _, _, _, _, _)
RunLen(a, b, i, j, ahi, bhi) ==
    IF i <= ahi /\ j <= bhi /\ a[i] = b[j]
    THEN 1 + RunLen(a, b, i + 1, j + 1, ahi, bhi)
    ELSE 0

\* find_longest_match: the longest block a[i..i+k-1] = b[j..j+k-1] inside the two
\* windows; of the longest the one starting earliest in a, then earliest in b.
FindLongestMatch(a, b, alo, ahi, blo, bhi) ==
    LET runs == {<<RunLen(a, b, i, j, ahi, bhi), i, j>> : i \in alo..ahi, j \in blo..bhi}
        Better(x, y) == \/ x[1] > y[1]
                        \/ x[1] = y[1] /\ x[2] < y[2]
                        \/ x[1] = y[1] /\ x[2] = y[2] /\ x[3] <= y[3]
    IN  IF runs = {} THEN <<0, alo, blo>>
        ELSE CHOOSE x \in runs : \A y \in runs : Better(x, y)

\* get_matching_blocks: the longest match, then the same left and right of it.
RECURSIVE MatchCount(_, _, _, _, _, _)
MatchCount(a, b, alo, ahi, blo, bhi) ==
    LET m == FindLongestMatch(a, b, alo, ahi, blo, bhi)
        k == m[1]
        i == m[2]
        j == m[3]
    IN  IF k = 0 THEN 0
        ELSE k
             + (IF alo < i /\ blo < j THEN MatchCount(a, b, alo, i - 1, blo, j - 1) ELSE 0)
             + (IF i + k <= ahi /\ j + k <= bhi
                THEN MatchCount(a, b, i + k, ahi, j + k, bhi) ELSE 0)

\* calculate_diff_ratio: 1.0 - ratio(), ratio() = 2.0 * matches / (len(a) + len(b)),
\* 1.0 when both are empty.  The result is kept as the exact fraction <<num, den>>.
DiffOfLines(a, b) ==
    LET total == Len(a) + Len(b)
    IN  IF total = 0 THEN <<0, 1>>
        ELSE <<total - 2 * MatchCount(a, b, 1, Len(a), 1, Len(b)), total>>

DiffTable == [p \in AllPlans |-> [q \in AllPlans |->
                 DiffOfLines(SplitLines(PlanText[p]), SplitLines(PlanText[q]))]]

\* matcher.ratio() handed back as it is
calculate_diff_ratioMutant(old_plan, new_plan) ==
    <<DiffTable[old_plan][new_plan][2] - DiffTable[old_plan][new_plan][1],
      DiffTable[old_plan][new_plan][2]>>

calculate_diff_ratio(old_plan, new_plan) == DiffTable[old_plan][new_plan]

\* d < pct / 100 and d > pct / 100 for a fraction d
RatioBelow(d, pct) == d[1] * 100 < pct * d[2]
RatioAbove(d, pct) == d[1] * 100 > pct * d[2]

OscillationPct == 2    \* detect_oscillation: diff < 0.02
DiffThresholdPct == 5  \* diff_threshold = 0.05
LargeDiffPct == 10     \* diff_ratio > 0.1
DefaultMinRounds == 1  \* min_rounds = 1

(***************************************************************************)
(* ConvergenceDetector (convergence.py)                                    *)
(***************************************************************************)
Statuses == {"CONVERGED", "CONTINUING", "OSCILLATING", "NEEDS_HUMAN"}

\* ConvergenceAssessment; diff_ratio defaults to 0.0
Assessment(status, changes_made, open_items, diff_ratio, rationale) ==
    [status |-> status, changes_made |-> changes_made, open_items |-> open_items,
     diff_ratio |-> diff_ratio, rationale |-> rationale]

NoDiff == <<0, 1>>

\* melder_assessment is None
NoReport == [status |-> "NONE", changes_made |-> 0, open_items |-> 0, rationale |-> ""]

add_planMutant(history, plan) == <<plan>> \o history
add_plan(history, plan) == Append(history, plan)

detect_oscillationMutant(history) ==
    IF Len(history) < 3 THEN FALSE
    ELSE RatioBelow(calculate_diff_ratio(history[Len(history)], history[Len(history) - 1]),
                    OscillationPct)

detect_oscillationOff(history) == FALSE

detect_oscillation(history) ==
    IF Len(history) < 3 THEN FALSE
    ELSE RatioBelow(calculate_diff_ratio(history[Len(history)], history[Len(history) - 2]),
                    OscillationPct)

\* "if round_number < self._min_rounds"
BelowMinRoundsMutant(round_number, minr) == FALSE
BelowMinRoundsInclusive(round_number, minr) == round_number <= minr
BelowMinRounds(round_number, minr) == round_number < minr

\* "if melder_assessment.open_items > 0"
OpenItemsRemainMutant(melder_assessment) ==
    melder_assessment.open_items > 0 /\ melder_assessment.status # "CONVERGED"
OpenItemsRemain(melder_assessment) == melder_assessment.open_items > 0

\* check_convergence after the min-rounds rule, on the history that already holds
\* new_plan: oscillation, then the rules on the self-report and the diff ratio.
\* diff_ratio < self._diff_threshold
DiffBelowThresholdMutant(diff_ratio) == RatioBelow(diff_ratio, LargeDiffPct)

DiffBelowThreshold(diff_ratio) == RatioBelow(diff_ratio, DiffThresholdPct)

\* diff_ratio > 0.1
LargeDiffLow(diff_ratio) == RatioAbove(diff_ratio, DiffThresholdPct)

LargeDiffMutant(diff_ratio) == RatioAbove(diff_ratio, 2 * LargeDiffPct)

LargeDiff(diff_ratio) == RatioAbove(diff_ratio, LargeDiffPct)

\* the rules after the oscillation test: on the self-report and the diff ratio
AssessByRules(melder_assessment, old_plan, new_plan) ==
    LET diff_ratio == calculate_diff_ratio(old_plan, new_plan)
    IN  IF melder_assessment = NoReport
        THEN IF DiffBelowThreshold(diff_ratio)
             THEN Assessment("CONVERGED", 0, 0, diff_ratio,
                             "Diff below threshold, no explicit assessment")
             ELSE Assessment("CONTINUING", 1, 0, diff_ratio,
                             "No explicit assessment, changes detected")
        ELSE IF OpenItemsRemain(melder_assessment)
        THEN Assessment("CONTINUING", melder_assessment.changes_made,
                        melder_assessment.open_items, diff_ratio, "Open items remain")
        ELSE IF melder_assessment.status = "CONVERGED" /\ LargeDiff(diff_ratio)
        THEN Assessment("CONTINUING", melder_assessment.changes_made,
                        melder_assessment.open_items, diff_ratio,
                        "Melder claims convergence but diff is large")
        ELSE Assessment(melder_assessment.status, melder_assessment.changes_made,
                        melder_assessment.open_items, diff_ratio,
                        melder_assessment.rationale)

Oscillating ==
    Assessment("OSCILLATING", 0, 0, NoDiff,
               "Plan is oscillating between versions - needs human decision")

\* the oscillation test made after the rules, for a result that is not CONVERGED
AssessRulesFirst(history, melder_assessment, old_plan, new_plan) ==
    LET byRules == AssessByRules(melder_assessment, old_plan, new_plan)
    IN  IF byRules.status # "CONVERGED" /\ detect_oscillation(history)
        THEN Oscillating
        ELSE byRules

\* "if self.detect_oscillation()" comes first, before any rule
AssessWithHistory(history, melder_assessment, old_plan, new_plan) ==
    IF detect_oscillation(history)
    THEN Oscillating
    ELSE AssessByRules(melder_assessment, old_plan, new_plan)

\* check_convergence: the assessment returned and the history it leaves
check_convergence(history, minr, melder_assessment, old_plan, new_plan, round_number) ==
    IF BelowMinRounds(round_number, minr)
    THEN [assessment |-> Assessment("CONTINUING", 1, 0, NoDiff, "Minimum rounds not reached"),
          history |-> history]
    ELSE [assessment |-> AssessWithHistory(add_plan(history, new_plan), melder_assessment,
                                           old_plan, new_plan),
          history |-> add_plan(history, new_plan)]

\* Bounds of the detector's calls
MaxHistory == 3        \* plans the history may hold
MaxMinRounds == 2      \* min_rounds given to the constructor: 1..MaxMinRounds
MaxRoundArg == 2       \* round_number given to check_convergence: 0..MaxRoundArg

SelfReports ==
    {NoReport} \cup [status : {"CONVERGED", "CONTINUING", "NEEDS_HUMAN"},
                     changes_made : {3}, open_items : {0, 2}, rationale : {"self-report"}]

(***************************************************************************)
(* Melder._extract_convergence (melder.py).  The synthesizer's output is   *)
(* held by what the parse looks at: the first ```json {...}``` block, and  *)
(* whether the upper-cased output contains "STATUS: CONVERGED".            *)
(***************************************************************************)
Absent == "absent"    \* the key is not in the object: data.get gives its default
Null == "null"        \* the JSON value null

NoBlock == [kind |-> "none"]            \* re.search finds no block
InvalidBlock == [kind |-> "invalid"]    \* json.loads raises JSONDecodeError

ObjectBlocks ==
    [kind : {"object"}, STATUS : {"CONVERGED", "converged", "NEEDS_HUMAN", Absent, Null},
     CHANGES_MADE : {3}, OPEN_ITEMS : {0, 2}, RATIONALE : {"self-report"}]

MelderOutputs == [block : {NoBlock, InvalidBlock} \cup ObjectBlocks, inline : BOOLEAN]

\* str.upper() of the values above
Upper(str) == IF str = "converged" THEN "CONVERGED" ELSE str

\* the call ended with an AttributeError: None has no upper()
ExtractRaises == [status |-> "AttributeError", changes_made |-> 0, open_items |-> 0,
                  rationale |-> ""]

\* "if 'STATUS: CONVERGED' in output.upper()", else None
InlineMarkers(output) ==
    IF output.inline
    THEN [status |-> "CONVERGED", changes_made |-> 0, open_items |-> 0, rationale |-> ""]
    ELSE NoReport

extract_convergence(output) ==
    IF output.block.kind = "object"
    THEN IF output.block.STATUS = Null
         THEN ExtractRaises
         ELSE [status |-> IF output.block.STATUS # Absent
                             /\ Upper(output.block.STATUS) = "CONVERGED"
                          THEN "CONVERGED" ELSE "CONTINUING",
               changes_made |-> output.block.CHANGES_MADE,
               open_items |-> output.block.OPEN_ITEMS,
               rationale |-> output.block.RATIONALE]
    ELSE InlineMarkers(output)

NoExtract == [output |-> [block |-> NoBlock, inline |-> FALSE], convergence |-> NoReport,
              called |-> FALSE]

NoCheck == [melder_assessment |-> NoReport, old_plan |-> PlanE, new_plan |-> PlanE,
            round_number |-> -1, result |-> Assessment("NONE", 0, 0, NoDiff, "")]

(***************************************************************************)
(* AdvisorPool (advisors.py) and the adapters' invoke (providers/base.py)  *)
(***************************************************************************)
Advisors == <<"claude", "gemini", "openai">>    \* self._adapters, in registration order
AdvisorNames == {Advisors[i] : i \in DOMAIN Advisors}

ErrorKinds == {"CLI_NOT_FOUND", "AUTH_FAILED", "TIMEOUT", "RATE_LIMITED",
               "NETWORK_ERROR", "PARSE_ERROR", "UNKNOWN"}

RETRY_CONFIG ==
    [k \in {"TIMEOUT", "RATE_LIMITED", "NETWORK_ERROR"} |->
        CASE k = "TIMEOUT"       -> [max_retries |-> 1, backoff |-> 0]
          [] k = "RATE_LIMITED"  -> [max_retries |-> 3, backoff |-> 1]
          [] k = "NETWORK_ERROR" -> [max_retries |-> 3, backoff |-> 3]]

NoRetryKinds == ErrorKinds \ DOMAIN RETRY_CONFIG

\* AdvisorResult as adapter.invoke returns it: the adapter names itself as provider.
\* Of the ProviderError in error the record keeps error_type (as error) and
\* retryable (FALSE, the field's default, where there is no error object).
AdvisorResult(provider, success, error, round_number) ==
    [provider |-> provider, success |-> success,
     feedback |-> IF success THEN "feedback" ELSE "",
     error |-> error, retryable |-> FALSE, round_number |-> round_number]

\* a failed result whose error is None
NoErrorObject == "NO_ERROR"

\* the retryable flag the adapters give an error of a kind
AdapterFlag(o) == o \in {"TIMEOUT", "RATE_LIMITED", "NETWORK_ERROR"}

\* What one adapter.invoke call can end with: a successful result, a failed result
\* of one of the error kinds, or an exception raised out of the call.
Outcomes == {"ok", "raise"} \cup ErrorKinds

\* the coroutine holds no result yet; the call raised instead of returning
NotReturned == [exception |-> FALSE]
Raised == [exception |-> TRUE]

IdleTask == [st |-> "idle", calls |-> 0, attempt |-> 0, max_retries |-> 0, backoff |-> 0,
             first |-> None, result |-> NotReturned,
             returned |-> 0,       \* adapter.invoke calls that have ended
             slept |-> 0,          \* asyncio.sleep calls that have ended
             sleeps |-> <<>>,      \* the seconds each asyncio.sleep call was given
             notified |-> <<>>]    \* the statuses the callback was given for this adapter

\* "backoff * (attempt + 1)", in seconds
SleepSecondsMutant(backoff, attempt) == backoff
SleepSeconds(backoff, attempt) == backoff * (attempt + 1)

\* "await asyncio.sleep(backoff * (attempt + 1))": the coroutine is suspended in
\* the sleep; the next adapter.invoke starts when the sleep has ended
BackoffSleepMutant(t) == [t EXCEPT !.st = "invoking", !.calls = @ + 1]
BackoffSleep(t) ==
    [t EXCEPT !.st = "sleeping", !.sleeps = Append(@, SleepSeconds(t.backoff, t.attempt))]

\* _notify_status with a callback registered: the callback is given the status
notify_status(t, status) == [t EXCEPT !.notified = Append(@, status)]

\* "for attempt in range(max_retries)": is there an iteration after this one
AnotherRetryMutant(attempt, max_retries) == attempt + 1 <= max_retries
AnotherRetry(attempt, max_retries) == attempt + 1 < max_retries

\* "if result.error and result.error.error_type in self.RETRY_CONFIG"
RetryableByFlag(result) ==
    result.error # None /\ result.error \in DOMAIN RETRY_CONFIG /\ result.retryable
Retryable(result) == result.error # None /\ result.error \in DOMAIN RETRY_CONFIG

\* max_retries and backoff inside the retry loop: assigned before the loop, from
\* the first failure, and not again for the results of the retries
LoopConfigMutant(t, result) ==
    IF Retryable(result)
    THEN [max_retries |-> RETRY_CONFIG[result.error].max_retries,
          backoff |-> RETRY_CONFIG[result.error].backoff]
    ELSE [max_retries |-> t.max_retries, backoff |-> t.backoff]

LoopConfig(t, result) == [max_retries |-> t.max_retries, backoff |-> t.backoff]

\* _invoke_with_retry from the return of one adapter.invoke call to its next await
\* or its end.  t is the coroutine's state, o what the call ended with, retryable
\* the flag of the error object of a failed result.
AfterInvokeWith(task, provider, o, retryable, round_number) ==
    LET t == [task EXCEPT !.returned = @ + 1]
        error == IF o \in {"ok", NoErrorObject} THEN None ELSE o
        res == [AdvisorResult(provider, o = "ok", error, round_number)
                   EXCEPT !.retryable = (error # None /\ retryable)]
        seen == IF t.first = None THEN o ELSE t.first
    IN  IF o = "raise"
        THEN [t EXCEPT !.st = "done", !.result = Raised, !.first = seen]
        ELSE IF res.success
        THEN notify_status([t EXCEPT !.st = "done", !.result = res, !.first = seen],
                           "complete")
        ELSE IF t.calls = 1
        THEN IF Retryable(res) /\ AnotherRetry(-1, RETRY_CONFIG[res.error].max_retries)
             THEN BackoffSleep(notify_status(
                      [t EXCEPT !.result = res, !.first = seen, !.attempt = 0,
                                !.max_retries = RETRY_CONFIG[res.error].max_retries,
                                !.backoff = RETRY_CONFIG[res.error].backoff],
                      "retrying"))
             ELSE notify_status([t EXCEPT !.st = "done", !.result = res, !.first = seen],
                                "failed")
        ELSE IF AnotherRetry(t.attempt, LoopConfig(t, res).max_retries)
        THEN BackoffSleep(notify_status(
                 [t EXCEPT !.result = res, !.attempt = t.attempt + 1,
                           !.max_retries = LoopConfig(t, res).max_retries,
                           !.backoff = LoopConfig(t, res).backoff],
                 "retrying"))
        ELSE notify_status([t EXCEPT !.st = "done", !.result = res], "failed")

\* the same for a result as the adapters build it
AfterInvoke(task, provider, o, round_number) ==
    AfterInvokeWith(task, provider, o, AdapterFlag(o), round_number)

\* asyncio.gather(*tasks, return_exceptions=True): one entry per task, in task order
GatheredMutant(tasks) == [i \in 1..Len(finish_order) |-> tasks[finish_order[i]].result]
Gathered(tasks) == [i \in DOMAIN Advisors |-> tasks[Advisors[i]].result]

\* "Convert exceptions to failed results"
ProcessedMutant(results, round_number) ==
    [i \in DOMAIN results |->
        IF results[i] = Raised
        THEN AdvisorResult(Advisors[i], FALSE, None, 0)
        ELSE results[i]]

Processed(results, round_number) ==
    [i \in DOMAIN results |->
        IF results[i] = Raised
        THEN AdvisorResult(Advisors[i], FALSE, None, round_number)
        ELSE results[i]]

get_participating_advisorsMutant(results) == [i \in DOMAIN results |-> results[i].provider]

get_participating_advisors(results) ==
    LET Ok(r) == r.success
        oks == SelectSeq(results, Ok)
    IN  [i \in DOMAIN oks |-> oks[i].provider]

\* Melder._format_advisor_feedback: one section per result, failed ones included
format_advisor_feedbackMutant(results) ==
    LET Ok(r) == r.success
        oks == SelectSeq(results, Ok)
    IN  [i \in DOMAIN oks |-> [provider |-> oks[i].provider, heading |-> "Feedback",
                               body |-> oks[i].feedback]]

format_advisor_feedback(results) ==
    [i \in DOMAIN results |->
        IF results[i].success
        THEN [provider |-> results[i].provider, heading |-> "Feedback",
              body |-> results[i].feedback]
        ELSE [provider |-> results[i].provider, heading |-> "(Failed)",
              body |-> "No feedback available."]]

\* "await asyncio.gather(...)" is over: every coroutine has ended
AllDoneMutant == \A a \in AdvisorNames : adv[a].st \in {"done", "sleeping"}
AllDone == \A a \in AdvisorNames : adv[a].st = "done"
PoolIdle == \A a \in AdvisorNames : adv[a].st = "idle"

\* collect_feedback up to its await: every coroutine notifies "running" and calls
\* adapter.invoke
LaunchTasksMutant(round_number) ==
    /\ adv' = [a \in AdvisorNames |->
                 IF a = Advisors[1] THEN [IdleTask EXCEPT !.st = "invoking", !.calls = 1]
                 ELSE [IdleTask EXCEPT !.st = "sleeping"]]
    /\ pool_round' = round_number
    /\ advisor_results' = <<>>
    /\ finish_order' = <<>>

LaunchTasks(round_number) ==
    /\ adv' = [a \in AdvisorNames |->
                 notify_status([IdleTask EXCEPT !.st = "invoking", !.calls = 1], "running")]
    /\ pool_round' = round_number
    /\ advisor_results' = <<>>
    /\ finish_order' = <<>>

\* One adapter.invoke call of advisor a ends
InvokeReturnsWith(a, o, retryable) ==
    /\ adv[a].st = "invoking"
    /\ o # "ok" => fail_budget > 0
    /\ adv' = [adv EXCEPT ![a] = AfterInvokeWith(adv[a], a, o, retryable, pool_round)]
    /\ fail_budget' = IF o = "ok" THEN fail_budget ELSE fail_budget - 1
    /\ finish_order' = IF adv'[a].st = "done" THEN Append(finish_order, a) ELSE finish_order
    /\ UNCHANGED <<pool_round, advisor_results>>
    /\ UNCHANGED detector_vars /\ UNCHANGED run_vars

\* the same with the error object as the adapters build it
InvokeReturns(a, o) == InvokeReturnsWith(a, o, AdapterFlag(o))

\* The backoff sleep of advisor a ends: the next adapter.invoke call starts
SleepEnds(a) ==
    /\ adv[a].st = "sleeping"
    /\ adv' = [adv EXCEPT ![a].st = "invoking", ![a].calls = @ + 1, ![a].slept = @ + 1]
    /\ UNCHANGED <<pool_round, advisor_results, finish_order, fail_budget>>
    /\ UNCHANGED detector_vars /\ UNCHANGED run_vars

\* gather returns and collect_feedback returns the processed list
FanIn ==
    /\ AllDone
    /\ advisor_results = <<>>
    /\ advisor_results' = Processed(Gathered(adv), pool_round)
    /\ UNCHANGED <<pool_round, fail_budget>>

(***************************************************************************)
(* SessionManager (session.py), saving enabled                             *)
(***************************************************************************)
NoFile == "no file"
NoRecord == [status |-> "absent"]

BlankSession ==
    [status |-> "running", current_round |-> 0, interrupted_at |-> FALSE,
     rounds_completed |-> 0, converged |-> FALSE, advisors_participated |-> {},
     advisor_statuses |-> {}, \* providers whose status is "completed"
     snapshots |-> <<>>,      \* plan.round<r>.md, snapshots[r + 1] for round r
     final_plan |-> NoFile,   \* final-plan.md
     resume_id |-> FALSE,     \* the manager was constructed with resume_id
     persisted |-> NoRecord]  \* session.json

\* _save_metadata: session.json takes the metadata as it is now
save_metadata(s) ==
    [s EXCEPT !.persisted =
        [status |-> s.status, current_round |-> s.current_round,
         interrupted_at |-> s.interrupted_at, rounds_completed |-> s.rounds_completed,
         converged |-> s.converged, advisors_participated |-> s.advisors_participated,
         advisors |-> s.advisor_statuses]]

\* SessionManager.__init__ of a fresh session: the directory and a first session.json
NewSession == save_metadata(BlankSession)

\* write_artifact replaces plan.round<round_number>.md or adds it; the files of
\* the other rounds stay
LastSnapshot(s, round_number) ==
    IF Len(s.snapshots) > round_number + 1 THEN Len(s.snapshots) ELSE round_number + 1

write_planMutant(s, plan, round_number) ==
    [s EXCEPT !.current_round = round_number,
              !.snapshots = [i \in 1..LastSnapshot(s, round_number) |->
                                IF i = round_number + 1 THEN plan ELSE s.snapshots[i]]]

write_plan(s, plan, round_number) ==
    save_metadata([s EXCEPT !.current_round = round_number,
                            !.snapshots = [i \in 1..LastSnapshot(s, round_number) |->
                                              IF i = round_number + 1 THEN plan ELSE s.snapshots[i]]])

RECURSIVE write_feedback(_, _, _)
\* "for result in advisor_results: if result.success: write_advisor_feedback(...)"
write_feedback(s, results, round_number) ==
    IF results = <<>> THEN s
    ELSE write_feedback(
            IF Head(results).success
            THEN save_metadata([s EXCEPT !.advisor_statuses = @ \cup {Head(results).provider}])
            ELSE s,
            Tail(results), round_number)

write_final_plan(s, plan) == [s EXCEPT !.final_plan = plan]

mark_complete(s, conv, advisors) ==
    save_metadata([s EXCEPT !.converged = conv, !.advisors_participated = advisors,
                            !.status = "complete"])

mark_interrupted(s) ==
    save_metadata([s EXCEPT !.interrupted_at = TRUE, !.status = "interrupted"])

update_metadata(s, rounds_completed) ==
    save_metadata([s EXCEPT !.rounds_completed = rounds_completed])

\* _save_metadata in steps.  data is the dict the call builds: it reads the status
\* and the current round (lines 215-216), then the other fields (217-238), and
\* write_json puts the dict into session.json (240).
NoData == [stage |-> "none", record |-> NoRecord]

\* an operation's effect on the manager's fields, before its _save_metadata call
InMemory(after, before) == [after EXCEPT !.persisted = before.persisted]

ReadStatus(s) == [stage |-> "status", record |-> save_metadata(s).persisted]

ReadRest(s, d) ==
    [stage |-> "built",
     record |-> [save_metadata(s).persisted EXCEPT !.status = d.record.status,
                                                   !.current_round = d.record.current_round]]

write_json(s, d) == [s EXCEPT !.persisted = d.record]

\* _load_metadata: the session state read back from session.json
load_metadata(record) ==
    [status |-> record.status, current_round |-> record.current_round,
     interrupted_at |-> record.interrupted_at,
     rounds_completed |-> record.rounds_completed, converged |-> record.converged,
     advisors_participated |-> record.advisors_participated,
     advisor_statuses |-> record.advisors]

\* SessionManager.__init__ with resume_id: after the load, _current_round is set
\* from the metadata's rounds_completed; then session.json is saved again
Resumed(s) ==
    LET loaded == load_metadata(s.persisted)
        state == [loaded EXCEPT !.current_round = loaded.rounds_completed]
    IN  save_metadata([s EXCEPT !.resume_id = TRUE,
                                !.status = state.status,
                                !.current_round = state.current_round,
                                !.interrupted_at = state.interrupted_at,
                                !.rounds_completed = state.rounds_completed,
                                !.converged = state.converged,
                                !.advisors_participated = state.advisors_participated,
                                !.advisor_statuses = state.advisor_statuses])

(***************************************************************************)
(* Orchestrator.run (orchestrator.py).  run() is a coroutine: between two  *)
(* awaits it runs without interleaving; signals are delivered while it is  *)
(* suspended.  pc names where it is: awaiting the initial plan, at the top *)
(* of the round loop, awaiting the advisors, awaiting the synthesis, after *)
(* the loop, returned, or left by the melder's RuntimeError.               *)
(***************************************************************************)
MaxRounds == 4         \* max_rounds given to the constructor: 1..MaxRounds
MaxRunFailures == 1    \* failed advisor attempts in one run
MaxPoolFailures == 4   \* failed advisor attempts in the pool's own specification

\* What Melder._extract_convergence can hand over: nothing, or CONVERGED / CONTINUING
RunReports ==
    {NoReport,
     [status |-> "CONVERGED", changes_made |-> 0, open_items |-> 0, rationale |-> "self-report"],
     [status |-> "CONTINUING", changes_made |-> 3, open_items |-> 2, rationale |-> "self-report"]}

\* Initial plans, and what the advisors' calls end with in a run: success or a
\* failure that is retried once (run() reads nothing of a result but its success)
InitialPlans == {PlanA, PlanB}
RunOutcomes == {"ok", "TIMEOUT"}

NoSignal == [pc |-> "none", round |-> -1]
NoMeldResult == [success |-> FALSE, returned |-> FALSE]

MeldResult(plan, rounds_completed, conv, advisors) ==
    [success |-> TRUE, returned |-> TRUE, plan |-> plan, rounds_completed |-> rounds_completed,
     converged |-> conv, advisors_participated |-> advisors]

\* "for round_num in range(1, self._max_rounds + 1)": is round_num in the range
InRangeMutant(r, maxr) == r < maxr
InRange(r, maxr) == r <= maxr

\* "if self._interrupted: break"
BreakOnInterruptMutant(flag) == FALSE
BreakOnInterrupt(flag) == flag

\* the break statements after the convergence check
LoopExitNever(status) == "NONE"
LoopExitMutant(status) ==
    IF status = "OSCILLATING" THEN "OSCILLATING" ELSE "NONE"
LoopExit(status) ==
    IF status = "CONVERGED" THEN "CONVERGED"
    ELSE IF status = "OSCILLATING" THEN "OSCILLATING"
    ELSE "NONE"

\* "raise RuntimeError(...)" in the melder: run() has no handler, the error leaves it
\* RuntimeError(f"{text}{result.error}"): the message is all the exception holds
NoException == [type |-> "None", message |-> "", interpolated |-> ""]
RuntimeError(text) == [type |-> "RuntimeError", message |-> text,
                       interpolated |-> "result.error"]

\* "current_plan = synthesis.plan", after the convergence check
AdoptedMutant(old_plan, new_plan) == old_plan
Adopted(old_plan, new_plan) == new_plan

MelderFailsMutant(at) == "loop_top"
MelderFailsFinalizes(at) == "finalize"
MelderFails(at) == "failed"

DetectorInit ==
    /\ plan_history = <<>>
    /\ min_rounds = DefaultMinRounds
    /\ check = NoCheck

PoolInit(budget) ==
    /\ adv = [a \in AdvisorNames |-> IdleTask]
    /\ pool_round = 0
    /\ advisor_results = <<>>
    /\ finish_order = <<>>
    /\ fail_budget = budget

\* a run that takes up where the session's run stopped
RunLocalsContinues(s) ==
    [round_num |-> 0, final_round |-> 0,
     current_plan |-> IF s.snapshots = <<>> THEN PlanE ELSE s.snapshots[Len(s.snapshots)],
     all_participants |-> s.advisors_participated, converged |-> FALSE]

\* the locals of run() before its first await, in an Orchestrator whose
\* SessionManager is s; round_num is bound by the loop
RunLocals(s) ==
    [round_num |-> 0, final_round |-> 0, current_plan |-> PlanE,
     all_participants |-> {}, converged |-> FALSE]

\* Orchestrator.__init__ with the SessionManager s it constructed, and run() up
\* to its first await
RunInitWith(at, s) ==
    /\ pc = at
    /\ round_num = RunLocals(s).round_num
    /\ final_round = RunLocals(s).final_round
    /\ current_plan = RunLocals(s).current_plan
    /\ all_participants = RunLocals(s).all_participants
    /\ converged = RunLocals(s).converged
    /\ interrupted = FALSE
    /\ interrupted_in = NoSignal
    /\ terminal = "NONE"
    /\ log = <<>>
    /\ meld_result = NoMeldResult
    /\ raised = NoException
    /\ extracted = NoExtract
    /\ data = NoData
    /\ session = s

RunInit(at) == RunInitWith(at, NewSession)

\* The constructed Orchestrator whose run() awaits Melder.generate_initial_plan
Init ==
    /\ DetectorInit
    /\ PoolInit(MaxRunFailures)
    /\ RunInit("initial_plan")
    /\ max_rounds \in 1..MaxRounds

\* generate_initial_plan returns a plan or raises RuntimeError
InitialPlanReturns(ok, plan) ==
    /\ pc = "initial_plan"
    /\ UNCHANGED <<extracted, data>>
    /\ IF ok
       THEN /\ current_plan' = plan
            /\ session' = write_plan(session, plan, 0)
            /\ round_num' = 1
            /\ pc' = "loop_top"
            /\ UNCHANGED raised
       ELSE /\ pc' = MelderFails(pc)
            /\ raised' = RuntimeError("Melder failed: ")
            /\ UNCHANGED <<current_plan, session, round_num>>
    /\ UNCHANGED <<max_rounds, final_round, all_participants, converged, interrupted,
                   interrupted_in, terminal, log, meld_result>>
    /\ UNCHANGED detector_vars /\ UNCHANGED pool_vars

\* The top of the round loop: the range, the interrupt flag, then collect_feedback
\* up to its await
LoopTop ==
    /\ pc = "loop_top"
    /\ UNCHANGED <<extracted, data>>
    /\ IF ~InRange(round_num, max_rounds)
       THEN /\ pc' = "finalize"
            /\ terminal' = "MAX_ROUNDS"
            /\ UNCHANGED final_round
            /\ UNCHANGED pool_vars
       ELSE IF BreakOnInterrupt(interrupted)
       THEN /\ pc' = "finalize"
            /\ terminal' = "CANCELLED"
            /\ UNCHANGED final_round
            /\ UNCHANGED pool_vars
       ELSE /\ pc' = "collecting"
            /\ final_round' = round_num
            /\ LaunchTasks(round_num)
            /\ UNCHANGED <<terminal, fail_budget>>
    /\ UNCHANGED <<max_rounds, round_num, current_plan, all_participants, converged,
                   interrupted, interrupted_in, log, meld_result, raised, session>>
    /\ UNCHANGED detector_vars

\* collect_feedback returns: participants recorded, feedback saved, then
\* synthesize_feedback up to its await
GatherReturns ==
    /\ pc = "collecting"
    /\ UNCHANGED <<extracted, data>>
    /\ FanIn
    /\ all_participants' = all_participants \cup
          {get_participating_advisors(advisor_results')[i] :
              i \in DOMAIN get_participating_advisors(advisor_results')}
    /\ session' = write_feedback(session, advisor_results', round_num)
    /\ adv' = [a \in AdvisorNames |-> IdleTask]      \* the coroutines are gone
    /\ finish_order' = <<>>
    /\ pc' = "synthesizing"
    /\ UNCHANGED <<max_rounds, round_num, final_round, current_plan, converged, interrupted,
                   interrupted_in, terminal, log, meld_result, raised>>
    /\ UNCHANGED detector_vars

\* synthesize_feedback returns a plan and a self-report, or raises RuntimeError;
\* then the convergence check, the adoption of the plan, its snapshot, the breaks
SynthesisReturns(ok, plan, report) ==
    /\ pc = "synthesizing"
    /\ UNCHANGED <<extracted, data>>
    /\ IF ok
       THEN LET c == check_convergence(plan_history, min_rounds, report, current_plan,
                                       plan, round_num)
                exit == LoopExit(c.assessment.status)
            IN  /\ plan_history' = c.history
                /\ check' = [melder_assessment |-> report, old_plan |-> current_plan,
                             new_plan |-> plan, round_number |-> round_num,
                             result |-> c.assessment]
                /\ current_plan' = Adopted(current_plan, plan)
                /\ session' = write_plan(session, current_plan', round_num)
                /\ log' = Append(log, [plan |-> plan, report |-> report,
                                       verdict |-> c.assessment.status])
                /\ converged' = IF exit = "CONVERGED" THEN TRUE ELSE converged
                /\ terminal' = IF exit = "NONE" THEN terminal ELSE exit
                /\ pc' = IF exit = "NONE" THEN "loop_top" ELSE "finalize"
                /\ round_num' = IF exit = "NONE" THEN round_num + 1 ELSE round_num
                /\ advisor_results' = <<>>      \* the list is not read again
                /\ UNCHANGED raised
       ELSE /\ pc' = MelderFails(pc)
            /\ raised' = RuntimeError("Melder synthesis failed: ")
            /\ UNCHANGED <<plan_history, check, current_plan, session, log, converged,
                           terminal, round_num, advisor_results>>
    /\ UNCHANGED <<min_rounds, max_rounds, final_round, all_participants, interrupted,
                   interrupted_in, meld_result>>
    /\ UNCHANGED <<adv, pool_round, finish_order, fail_budget>>

\* After the loop: final plan, metadata, mark_complete, the MeldResult
Finalize ==
    /\ pc = "finalize"
    /\ UNCHANGED <<extracted, data>>
    /\ session' = mark_complete(update_metadata(write_final_plan(session, current_plan),
                                                final_round),
                                converged, all_participants)
    /\ meld_result' = MeldResult(current_plan, final_round, converged, all_participants)
    /\ pc' = "done"
    /\ UNCHANGED <<max_rounds, round_num, final_round, current_plan, all_participants,
                   converged, interrupted, interrupted_in, terminal, log, raised>>
    /\ UNCHANGED detector_vars /\ UNCHANGED pool_vars

\* SIGINT or SIGTERM while run() is suspended: the handler sets the flag and marks
\* the session.  A second signal changes nothing but a timestamp.
Signal ==
    /\ pc \in {"initial_plan", "collecting", "synthesizing"}
    /\ UNCHANGED <<extracted, data>>
    /\ ~interrupted
    /\ interrupted' = TRUE
    /\ interrupted_in' = [pc |-> pc, round |-> final_round]
    /\ session' = mark_interrupted(session)
    /\ UNCHANGED <<pc, max_rounds, round_num, final_round, current_plan, all_participants,
                   converged, terminal, log, meld_result, raised>>
    /\ UNCHANGED detector_vars /\ UNCHANGED pool_vars

AdvisorStep(outcomes) ==
    \E a \in AdvisorNames :
        \/ \E o \in outcomes : InvokeReturns(a, o)
        \/ SleepEnds(a)

Next ==
    \/ \E ok \in BOOLEAN, plan \in InitialPlans : InitialPlanReturns(ok, plan)
    \/ LoopTop
    \/ AdvisorStep(RunOutcomes)
    \/ GatherReturns
    \/ \E ok \in BOOLEAN, plan \in RunPlans, report \in RunReports :
          SynthesisReturns(ok, plan, report)
    \/ Finalize
    \/ Signal

Spec == Init /\ [][Next]_vars

(***************************************************************************)
(* A run, and then a second Orchestrator constructed with the resume_id of *)
(* the first one's session.  The first process may have returned, failed   *)
(* or been killed at any await.                                            *)
(***************************************************************************)
MaxResumeRounds == 1      \* max_rounds given to either constructor: 1..MaxResumeRounds
MaxResumeFailures == 1    \* failed advisor attempts in one run

ResumeInit ==
    /\ DetectorInit
    /\ PoolInit(MaxResumeFailures)
    /\ RunInit("initial_plan")
    /\ max_rounds \in 1..MaxResumeRounds

\* Orchestrator(..., resume_id = the session's id): a new detector, pool and
\* flag, and a SessionManager that loads session.json
Resume ==
    /\ ~session.resume_id
    /\ session' = Resumed(session)
    /\ plan_history' = <<>>
    /\ min_rounds' = DefaultMinRounds
    /\ check' = NoCheck
    /\ adv' = [a \in AdvisorNames |-> IdleTask]
    /\ pool_round' = 0
    /\ advisor_results' = <<>>
    /\ finish_order' = <<>>
    /\ fail_budget' = MaxResumeFailures
    /\ pc' = "initial_plan"
    /\ max_rounds' \in 1..MaxResumeRounds
    /\ round_num' = RunLocals(session').round_num
    /\ final_round' = RunLocals(session').final_round
    /\ current_plan' = RunLocals(session').current_plan
    /\ all_participants' = RunLocals(session').all_participants
    /\ converged' = RunLocals(session').converged
    /\ interrupted' = FALSE
    /\ interrupted_in' = NoSignal
    /\ terminal' = "NONE"
    /\ log' = <<>>
    /\ meld_result' = NoMeldResult
    /\ raised' = NoException
    /\ extracted' = NoExtract
    /\ data' = NoData

ResumeNext ==
    \/ Next
    \/ Resume

ResumeSpec == ResumeInit /\ [][ResumeNext]_vars

(***************************************************************************)
(* Orchestrator.run with advisors that fail for good: in any round any     *)
(* number of the adapters may raise, fail without a retry, or fail, be     *)
(* retried and fail again.                                                 *)
(***************************************************************************)
MaxDegradedRounds == 3      \* max_rounds given to the constructor: 1..MaxDegradedRounds
MaxDegradedFailures == 9    \* failed advisor attempts in one such run

DegradedOutcomes == {"ok", "raise", "AUTH_FAILED", "TIMEOUT"}
DegradedPlans == {PlanB}    \* the synthesizer hands the plan back unchanged

DegradedInit ==
    /\ DetectorInit
    /\ PoolInit(MaxDegradedFailures)
    /\ RunInit("initial_plan")
    /\ max_rounds \in 1..MaxDegradedRounds

DegradedNext ==
    \/ \E ok \in BOOLEAN : InitialPlanReturns(ok, PlanB)
    \/ LoopTop
    \/ AdvisorStep(DegradedOutcomes)
    \/ GatherReturns
    \/ \E ok \in BOOLEAN, plan \in DegradedPlans, report \in RunReports :
          SynthesisReturns(ok, plan, report)
    \/ Finalize

DegradedSpec == DegradedInit /\ [][DegradedNext]_vars

(***************************************************************************)
(* The pool on its own: collect_feedback called with any round number      *)
(***************************************************************************)
PoolInitial ==
    /\ DetectorInit
    /\ PoolInit(MaxPoolFailures)
    /\ RunInit("pool")
    /\ max_rounds = 0

CollectFeedback(round_number) ==
    /\ pc = "pool"
    /\ PoolIdle \/ advisor_results # <<>>
    /\ LaunchTasks(round_number)
    /\ UNCHANGED fail_budget
    /\ UNCHANGED detector_vars /\ UNCHANGED run_vars

CollectReturns ==
    /\ pc = "pool"
    /\ FanIn
    /\ UNCHANGED <<adv, finish_order>>
    /\ UNCHANGED detector_vars /\ UNCHANGED run_vars

PoolNext ==
    \/ \E r \in 1..MaxRoundArg : CollectFeedback(r)
    \/ AdvisorStep(Outcomes)
    \/ CollectReturns

PoolSpec == PoolInitial /\ [][PoolNext]_vars

(***************************************************************************)
(* The retry loop of one advisor: in a collect_feedback call the first     *)
(* adapter's calls end in any way, a failed result with or without an      *)
(* error object and with either retryable flag; the other adapters' calls  *)
(* succeed                                                                 *)
(***************************************************************************)
MaxRetryFailures == 5    \* failed attempts of the first adapter

RetryInitial ==
    /\ DetectorInit
    /\ PoolInit(MaxRetryFailures)
    /\ RunInit("pool")
    /\ max_rounds = 0

RetryNext ==
    \/ CollectFeedback(1)
    \/ \E o \in Outcomes \cup {NoErrorObject}, retryable \in BOOLEAN :
          InvokeReturnsWith(Advisors[1], o, retryable)
    \/ \E a \in AdvisorNames \ {Advisors[1]} : InvokeReturns(a, "ok")
    \/ \E a \in AdvisorNames : SleepEnds(a)
    \/ CollectReturns

RetrySpec == RetryInitial /\ [][RetryNext]_vars

(***************************************************************************)
(* The detector on its own: check_convergence called with any arguments    *)
(***************************************************************************)
DetectorInitial ==
    /\ plan_history = <<>>
    /\ min_rounds \in 1..MaxMinRounds
    /\ check = NoCheck
    /\ PoolInit(0)
    /\ RunInit("detector")
    /\ max_rounds = 0

CheckConvergence(melder_assessment, old_plan, new_plan, round_number) ==
    /\ pc = "detector"
    /\ Len(plan_history) < MaxHistory
    /\ LET c == check_convergence(plan_history, min_rounds, melder_assessment, old_plan,
                                  new_plan, round_number)
       IN  /\ plan_history' = c.history
           /\ check' = [melder_assessment |-> melder_assessment, old_plan |-> old_plan,
                        new_plan |-> new_plan, round_number |-> round_number,
                        result |-> c.assessment]
    /\ UNCHANGED min_rounds
    /\ UNCHANGED pool_vars /\ UNCHANGED run_vars

DetectorNext ==
    \E melder_assessment \in SelfReports, old_plan \in DetectorPlans,
       new_plan \in DetectorPlans, round_number \in 0..MaxRoundArg :
        CheckConvergence(melder_assessment, old_plan, new_plan, round_number)

DetectorSpec == DetectorInitial /\ [][DetectorNext]_vars

(***************************************************************************)
(* The detector's thresholds: check_convergence called with plans whose    *)
(* diff ratios lie on both sides of 0.05 and of 0.10                       *)
(***************************************************************************)
MaxThresholdHistory == 3    \* plans the history may hold

\* diff ratios to PlanA: 0.08 and 0.12
ThresholdPlans == {PlanA, PlanA3, PlanA4}

ThresholdReports ==
    {NoReport} \cup [status : {"CONVERGED", "CONTINUING"}, changes_made : {3},
                     open_items : {0, 2}, rationale : {"self-report"}]
               \cup [status : {"NEEDS_HUMAN", "OSCILLATING"}, changes_made : {3},
                     open_items : {0}, rationale : {"self-report"}]

ThresholdNext ==
    \E melder_assessment \in ThresholdReports, old_plan \in ThresholdPlans,
       new_plan \in ThresholdPlans, round_number \in 0..MaxRoundArg :
        /\ Len(plan_history) < MaxThresholdHistory
        /\ CheckConvergence(melder_assessment, old_plan, new_plan, round_number)

ThresholdSpec == DetectorInitial /\ [][ThresholdNext]_vars

(***************************************************************************)
(* The parse step and the detector: _extract_convergence on a synthesizer  *)
(* output, then check_convergence with what it returned                    *)
(***************************************************************************)
MaxParseHistory == 2    \* plans the history may hold

ParsePlans == {PlanA, PlanA3}    \* diff ratio 0.08

\* Melder.synthesize_feedback calls _extract_convergence(result.feedback)
ExtractConvergence(output) ==
    /\ pc = "detector"
    /\ extracted' = [output |-> output, convergence |-> extract_convergence(output),
                     called |-> TRUE]
    /\ UNCHANGED <<pc, max_rounds, round_num, final_round, current_plan, all_participants,
                   converged, interrupted, interrupted_in, terminal, log, meld_result,
                   raised, data, session>>
    /\ UNCHANGED detector_vars /\ UNCHANGED pool_vars

\* run() hands synthesis.convergence to check_convergence, if the call returned
CheckExtracted(old_plan, new_plan, round_number) ==
    /\ extracted.called
    /\ extracted.convergence # ExtractRaises
    /\ Len(plan_history) < MaxParseHistory
    /\ CheckConvergence(extracted.convergence, old_plan, new_plan, round_number)

ParseNext ==
    \/ \E output \in MelderOutputs : ExtractConvergence(output)
    \/ \E old_plan \in ParsePlans, new_plan \in ParsePlans, round_number \in 0..MaxRoundArg :
          CheckExtracted(old_plan, new_plan, round_number)

ParseSpec == DetectorInitial /\ [][ParseNext]_vars

(***************************************************************************)
(* A SessionManager on its own: plans written round after round, metadata  *)
(* updates and interrupt marks in any order                                *)
(***************************************************************************)
MaxSessionRound == 3    \* highest round number given to write_plan

SessionPlans == {PlanA, PlanB}

SessionInit ==
    /\ DetectorInit
    /\ PoolInit(0)
    /\ RunInit("session")
    /\ max_rounds = 0

SessionUnchanged ==
    /\ UNCHANGED <<pc, max_rounds, round_num, final_round, current_plan, all_participants,
                   converged, interrupted, interrupted_in, terminal, log, meld_result,
                   raised, extracted, data>>
    /\ UNCHANGED detector_vars /\ UNCHANGED pool_vars

\* write_plan for the next round: 0, 1, 2, ...
WritePlan(plan) ==
    /\ pc = "session"
    /\ Len(session.snapshots) <= MaxSessionRound
    /\ session' = write_plan(session, plan, Len(session.snapshots))
    /\ SessionUnchanged

UpdateMetadata(rounds_completed) ==
    /\ pc = "session"
    /\ session' = update_metadata(session, rounds_completed)
    /\ SessionUnchanged

MarkInterrupted ==
    /\ pc = "session"
    /\ session' = mark_interrupted(session)
    /\ SessionUnchanged

SessionNext ==
    \/ \E plan \in SessionPlans : WritePlan(plan)
    \/ \E rounds_completed \in 0..MaxSessionRound : UpdateMetadata(rounds_completed)
    \/ MarkInterrupted

SessionSpec == SessionInit /\ [][SessionNext]_vars

(***************************************************************************)
(* A SessionManager whose saves take time: the signal handler is called    *)
(* between any two steps of the main flow, also while a _save_metadata     *)
(* call of write_plan or update_metadata is building or writing its dict   *)
(***************************************************************************)
MaxSaveRound == 2    \* highest round number given to write_plan

SaveUnchanged ==
    /\ UNCHANGED <<pc, max_rounds, round_num, final_round, current_plan, all_participants,
                   converged, interrupted_in, terminal, log, meld_result, raised,
                   extracted>>
    /\ UNCHANGED detector_vars /\ UNCHANGED pool_vars

\* write_plan up to the first read of its _save_metadata call
WritePlanStarts(plan) ==
    /\ pc = "session"
    /\ data = NoData
    /\ Len(session.snapshots) <= MaxSaveRound
    /\ session' = InMemory(write_plan(session, plan, Len(session.snapshots)), session)
    /\ data' = ReadStatus(session')
    /\ UNCHANGED interrupted
    /\ SaveUnchanged

\* update_metadata(rounds_completed=...) up to the first read of its save
UpdateMetadataStarts(rounds_completed) ==
    /\ pc = "session"
    /\ data = NoData
    /\ session' = InMemory(update_metadata(session, rounds_completed), session)
    /\ data' = ReadStatus(session')
    /\ UNCHANGED interrupted
    /\ SaveUnchanged

\* the save in progress reads the remaining fields
SaveReads ==
    /\ pc = "session"
    /\ data.stage = "status"
    /\ data' = ReadRest(session, data)
    /\ UNCHANGED <<session, interrupted>>
    /\ SaveUnchanged

\* the save in progress writes session.json and returns
SaveWrites ==
    /\ pc = "session"
    /\ data.stage = "built"
    /\ session' = write_json(session, data)
    /\ data' = NoData
    /\ UNCHANGED interrupted
    /\ SaveUnchanged

\* SIGINT or SIGTERM: the handler runs in the main thread, on top of whatever the
\* main flow is doing, and returns before the main flow goes on
HandlerRuns ==
    /\ pc = "session"
    /\ ~interrupted
    /\ interrupted' = TRUE
    /\ session' = mark_interrupted(session)
    /\ UNCHANGED data
    /\ SaveUnchanged

SaveNext ==
    \/ \E plan \in SessionPlans : WritePlanStarts(plan)
    \/ \E rounds_completed \in 0..MaxSaveRound : UpdateMetadataStarts(rounds_completed)
    \/ SaveReads
    \/ SaveWrites
    \/ HandlerRuns

SaveSpec == SessionInit /\ [][SaveNext]_vars

(***************************************************************************)
(* Properties of the detector (DetectorSpec)                               *)
(***************************************************************************)
Called == check.round_number >= 0
Reported == check.melder_assessment # NoReport

\* C4: a check_convergence call with round_number < min_rounds returns CONTINUING,
\* whatever the self-report, the plans and the history are.
C4_MinRoundsFloor ==
    (Called /\ check.round_number < min_rounds) => check.result.status = "CONTINUING"

\* a CONVERGED self-report without open items on an unchanged plan, below the floor
C4_Witness ==
    /\ Called
    /\ check.round_number < min_rounds
    /\ check.melder_assessment.status = "CONVERGED"
    /\ check.melder_assessment.open_items = 0
    /\ check.old_plan = check.new_plan
    /\ Len(plan_history) >= 1
    /\ check.result.status = "CONTINUING"

\* a call on a detector built with the default min_rounds
DefaultCall(round_number) ==
    /\ Called
    /\ min_rounds = DefaultMinRounds
    /\ check.round_number = round_number

BackToTwoAgo(h) ==
    /\ Len(h) >= 3
    /\ LET d == calculate_diff_ratio(h[Len(h)], h[Len(h) - 2])
       IN  d[1] * 100 < OscillationPct * d[2]

PastFloor == Called /\ check.round_number >= min_rounds

OscillationIff ==
    /\ detect_oscillation(plan_history) <=> BackToTwoAgo(plan_history)
    /\ PastFloor => (check.result.status = "OSCILLATING" <=> BackToTwoAgo(plan_history))
    /\ Len(plan_history) < 3 => ~detect_oscillation(plan_history)
    /\ (/\ Len(plan_history) = 3
        /\ plan_history[3] = plan_history[1]
        /\ plan_history[2] # plan_history[1]) => detect_oscillation(plan_history)

\* C18 as stated: detect_oscillation is true iff the history holds at least 3
\* plans and the newest is within 0.02 of the one two before; true after A, B, A;
\* false with fewer than 3 plans; false after three pairwise different plans.
C18_PairwiseDifferent ==
    /\ OscillationIff
    /\ (/\ Len(plan_history) = 3
        /\ plan_history[1] # plan_history[2]
        /\ plan_history[2] # plan_history[3]
        /\ plan_history[1] # plan_history[3]) => ~detect_oscillation(plan_history)

\* C18 amended: the same, but false after three plans A, B, C only when C differs
\* from A by a diff ratio of at least 0.02.
C18_DetectOscillation ==
    /\ OscillationIff
    /\ (/\ Len(plan_history) = 3
        /\ ~RatioBelow(calculate_diff_ratio(plan_history[3], plan_history[1]),
                       OscillationPct)) => ~detect_oscillation(plan_history)

\* A, B, A in the history, and the call that appended the last one said OSCILLATING
C18_Witness ==
    /\ plan_history = <<PlanA, PlanA4, PlanA>>
    /\ PastFloor
    /\ check.result.status = "OSCILLATING"
    /\ detect_oscillation(plan_history)

\* the diff ratio of the call's two plans, as num / den, against pct / 100
CallDiff == calculate_diff_ratio(check.old_plan, check.new_plan)
CallDiffBelow(pct) == CallDiff[1] * 100 < pct * CallDiff[2]
CallDiffAbove(pct) == CallDiff[1] * 100 > pct * CallDiff[2]

\* a call without self-report, past the round floor, with no oscillation detected
HeuristicCall ==
    /\ PastFloor
    /\ check.melder_assessment = NoReport
    /\ ~BackToTwoAgo(plan_history)

\* C19: a call without a self-report, with round_number >= min_rounds and no
\* oscillation detected, returns CONVERGED with changes_made = 0 and
\* open_items = 0 iff the diff ratio of old_plan and new_plan is below the
\* diff threshold, and otherwise CONTINUING with changes_made = 1 and
\* open_items = 0.
C19_NoReportByDiff ==
    HeuristicCall =>
        /\ check.result.diff_ratio = CallDiff
        /\ check.result.status = "CONVERGED" <=> CallDiffBelow(DiffThresholdPct)
        /\ check.result.status = "CONVERGED" =>
               check.result.changes_made = 0 /\ check.result.open_items = 0
        /\ check.result.status # "CONVERGED" =>
               /\ check.result.status = "CONTINUING"
               /\ check.result.changes_made = 1
               /\ check.result.open_items = 0

\* a call without self-report whose plans differ by 0.08, between the diff
\* threshold and 0.10, continues
C19_Witness ==
    /\ HeuristicCall
    /\ Len(plan_history) = 2
    /\ plan_history[1] = PlanA4
    /\ check.old_plan = PlanA /\ check.new_plan = PlanA3
    /\ check.result.status = "CONTINUING"
    /\ check.result.changes_made = 1
    /\ ~CallDiffBelow(DiffThresholdPct) /\ CallDiffBelow(LargeDiffPct)
    /\ calculate_diff_ratio(PlanA3, PlanA4)[1] * 100 <
           DiffThresholdPct * calculate_diff_ratio(PlanA3, PlanA4)[2]

\* a call with a self-report whose plans differ by more than 0.10, in which the
\* diff ratio is computed: past the round floor, no oscillation detected
LargeDiffCall ==
    /\ PastFloor
    /\ check.melder_assessment # NoReport
    /\ ~BackToTwoAgo(plan_history)
    /\ CallDiffAbove(LargeDiffPct)

Overridden ==
    /\ check.result.status = "CONTINUING"
    /\ check.result.rationale = "Melder claims convergence but diff is large"

\* C20 as stated: with a self-report and a diff ratio above 0.10 the result is
\* never CONVERGED; a self-reported CONVERGED comes back as CONTINUING with the
\* rationale that the claim was overridden because of the large diff.
C20_AlwaysOverridden ==
    LargeDiffCall =>
        /\ check.result.status # "CONVERGED"
        /\ check.melder_assessment.status = "CONVERGED" => Overridden

\* C20 amended: with a self-report and a diff ratio above 0.10 the result is
\* never CONVERGED; a self-reported CONVERGED comes back as CONTINUING, with the
\* rationale that the claim was overridden because of the large diff when the
\* self-report has no open items, and that open items remain when it has some.
C20_LargeDiffOverride ==
    /\ (/\ Called
        /\ check.melder_assessment # NoReport
        /\ CallDiffAbove(LargeDiffPct)) => check.result.status # "CONVERGED"
    /\ (LargeDiffCall /\ check.melder_assessment.status = "CONVERGED") =>
           /\ check.result.status = "CONTINUING"
           /\ check.result.diff_ratio = CallDiff
           /\ check.result.changes_made = check.melder_assessment.changes_made
           /\ check.result.open_items = check.melder_assessment.open_items
           /\ check.melder_assessment.open_items = 0 => Overridden
           /\ check.melder_assessment.open_items > 0 =>
                  check.result.rationale = "Open items remain"

\* a self-reported CONVERGED without open items, on plans differing by 0.12
C20_Witness ==
    /\ LargeDiffCall
    /\ check.old_plan = PlanA /\ check.new_plan = PlanA4
    /\ check.melder_assessment.status = "CONVERGED"
    /\ check.melder_assessment.open_items = 0
    /\ Overridden

\* a call whose self-report is trusted: no open items, past the round floor, no
\* oscillation detected, no CONVERGED claim against a diff ratio above 0.10
TrustedCall ==
    /\ PastFloor
    /\ check.melder_assessment # NoReport
    /\ check.melder_assessment.open_items = 0
    /\ ~BackToTwoAgo(plan_history)
    /\ ~(check.melder_assessment.status = "CONVERGED" /\ CallDiffAbove(LargeDiffPct))

Malformed(output) == output.block.kind = "invalid"

\* C26 as stated: for an output whose JSON convergence block is malformed the
\* parse step yields None, neither raising nor building an assessment from other
\* parts of the output, and the detector then decides by the diff ratio alone.
C26_MalformedIsNone ==
    (extracted.called /\ Malformed(extracted.output)) =>
        /\ extracted.convergence = NoReport
        /\ (PastFloor /\ check.melder_assessment = extracted.convergence
                      /\ ~BackToTwoAgo(plan_history)) =>
               /\ check.result.status = "CONVERGED" <=> CallDiffBelow(DiffThresholdPct)
               /\ check.result.status \in {"CONVERGED", "CONTINUING"}

\* C28 as stated: a SessionManager constructed with resume_id reports the
\* current round the original session had last persisted (the round number of
\* its last write_plan), after any sequence of write_plan, update_metadata and
\* mark_interrupted calls on the original session.
C28_ResumeRestoresRound ==
    /\ Resumed(session).current_round = session.persisted.current_round
    /\ session.snapshots # <<>> =>
          Resumed(session).current_round = Len(session.snapshots) - 1

\* the fraction <<num, den>> is 0, and lies in [0, 1]
IsZero(d) == d[2] > 0 /\ d[1] = 0
InUnit(d) == d[2] > 0 /\ 0 <= d[1] /\ d[1] <= d[2]

\* 1 - 2 * matches / (lines of a + lines of b), for a number of matching lines
LineCount == [p \in AllPlans |-> Len(SplitLines(PlanText[p]))]

OneMinusSimilarity(d, a, b) ==
    \E matches \in 0..LineCount[a] :
        /\ matches <= LineCount[b]
        /\ d[2] = LineCount[a] + LineCount[b]
        /\ d[1] = d[2] - 2 * matches

\* the function on every pair of the plan texts
DiffRatioLaws ==
    /\ \A x \in AllPlans : IsZero(calculate_diff_ratio(x, x))
    /\ \A a \in AllPlans, b \in AllPlans :
          /\ InUnit(calculate_diff_ratio(a, b))
          /\ (a # PlanE \/ b # PlanE) =>
                 OneMinusSimilarity(calculate_diff_ratio(a, b), a, b)

\* C30: calculate_diff_ratio(x, x) = 0.0 for every plan text x, and
\* calculate_diff_ratio(a, b) lies in [0, 1] for all plan texts a and b, being 1
\* minus 2 x matches / (lines of a + lines of b); so does the diff ratio a
\* check_convergence call returns.
C30_DiffRatioBounds ==
    /\ DiffRatioLaws
    /\ Called =>
          /\ InUnit(check.result.diff_ratio)
          /\ (PastFloor /\ check.result.status # "OSCILLATING") =>
                 /\ check.result.diff_ratio =
                        calculate_diff_ratio(check.old_plan, check.new_plan)
                 /\ check.old_plan = check.new_plan => IsZero(check.result.diff_ratio)

\* a call on an unchanged plan after a call on plans that differ: the first
\* left its new plan in the history, the second returned the diff ratio 0
C30_Witness ==
    /\ PastFloor
    /\ check.old_plan = PlanA4 /\ check.new_plan = PlanA4
    /\ check.result.status # "OSCILLATING"
    /\ check.result.diff_ratio = <<0, 2 * PlanLen>>
    /\ Len(plan_history) = 2 /\ plan_history[1] = PlanA
    /\ calculate_diff_ratio(PlanA, PlanA4)[1] > 0
    /\ calculate_diff_ratio(PlanA, PlanB) = <<PlanLen + 3, PlanLen + 3>>

\* what a check_convergence call does to the history: nothing below the round
\* floor, its new_plan put at the end otherwise
HistoryStep ==
    /\ min_rounds' = min_rounds
    /\ plan_history' = IF check'.round_number < min_rounds
                       THEN plan_history
                       ELSE Append(plan_history, check'.new_plan)

\* C36: a check_convergence call with round_number < min_rounds leaves the plan
\* history as it is; every other call appends its new_plan once and nothing
\* else, so the history is the sequence of the new_plan values of the calls with
\* round_number >= min_rounds, in call order, and is empty before the first of
\* them.
C36_HistoryIsNewPlans ==
    /\ [](~Called => plan_history = <<>>)
    /\ [](PastFloor => /\ plan_history # <<>>
                       /\ plan_history[Len(plan_history)] = check.new_plan)
    /\ [][HistoryStep]_vars

\* after two calls that appended A4 and A, a call below the round floor with a
\* third plan as new_plan and A4 as old_plan: the history still holds the two
C36_Witness ==
    /\ Called
    /\ check.round_number < min_rounds
    /\ plan_history = <<PlanA4, PlanA>>
    /\ check.new_plan = PlanA1
    /\ check.old_plan = PlanA4

(***************************************************************************)
(* Properties of the pool (PoolSpec)                                       *)
(***************************************************************************)
Returned(t) == t.result \notin {NotReturned, Raised}
Succeeded(t) == Returned(t) /\ t.result.success
Failed(t) == Returned(t) /\ ~t.result.success

\* C1: collect_feedback returns one outcome per registered advisor, the i-th one
\* carrying the i-th advisor's identifier, whatever the outcomes and the order of
\* completion; when every advisor succeeded, every outcome is successful.
C1_OrderedFanIn ==
    advisor_results # <<>> =>
        /\ Len(advisor_results) = Len(Advisors)
        /\ \A i \in DOMAIN advisor_results : advisor_results[i].provider = Advisors[i]
        /\ (\A a \in AdvisorNames : Succeeded(adv[a]))
              => \A i \in DOMAIN advisor_results : advisor_results[i].success

\* the last registered advisor finished first and the first one last; one raised,
\* one failed, one succeeded
C1_Witness ==
    /\ advisor_results # <<>>
    /\ finish_order = <<"openai", "gemini", "claude">>
    /\ adv["claude"].result = Raised
    /\ Failed(adv["gemini"])
    /\ Succeeded(adv["openai"])

\* C2: an advisor whose first attempt succeeds (or raises) is invoked once; one whose
\* first attempt fails with kind k is invoked at most 1, 2 or 4 times by k, and
\* exactly that often when its last attempt failed too; a coroutine that holds a
\* successful result has ended.
CallLimit(first) ==
    CASE first = "TIMEOUT" -> 2
      [] first \in {"RATE_LIMITED", "NETWORK_ERROR"} -> 4
      [] OTHER -> 1

C2_AttemptBudget ==
    \A a \in AdvisorNames :
        LET t == adv[a]
        IN  /\ t.first # None => t.calls <= CallLimit(t.first)
            /\ t.calls >= 1 => (t.calls = 1 \/ t.first \in ErrorKinds)
            /\ (t.st = "done" /\ Failed(t)) => t.calls = CallLimit(t.first)
            /\ Succeeded(t) => t.st = "done"

\* one advisor used up the RATE_LIMITED budget, another succeeded at once
C2_Witness ==
    \E a, b \in AdvisorNames :
        /\ adv[a].st = "done" /\ adv[a].first = "RATE_LIMITED" /\ Failed(adv[a])
        /\ adv[a].result.error = "RATE_LIMITED" /\ adv[a].calls = 4
        /\ adv[b].st = "done" /\ adv[b].first = "ok" /\ Succeeded(adv[b])
        /\ adv[b].calls = 1

\* C3 as stated: after an attempt failed with a kind that has no retry-table entry
\* the advisor is not invoked again.
C3_NoRetryAfterFatalKind ==
    \A a \in AdvisorNames :
        (Failed(adv[a]) /\ adv[a].result.error \in NoRetryKinds) => adv[a].st = "done"

\* C13: when every coroutine has ended, by a result or by an exception,
\* collect_feedback returns; where a coroutine raised, the list holds a failed
\* outcome with that advisor's identifier and the call's round number, and
\* everywhere else the very result the coroutine returned.
C13_ExceptionsConverted ==
    /\ (pc = "pool" /\ AllDone /\ advisor_results = <<>>) => ENABLED CollectReturns
    /\ advisor_results # <<>> =>
          \A i \in DOMAIN Advisors :
              IF adv[Advisors[i]].result = Raised
              THEN /\ ~advisor_results[i].success
                   /\ advisor_results[i].provider = Advisors[i]
                   /\ advisor_results[i].round_number = pool_round
              ELSE advisor_results[i] = adv[Advisors[i]].result

\* the second advisor raised, the first succeeded, the third failed after retries
C13_Witness ==
    /\ advisor_results # <<>>
    /\ adv["gemini"].result = Raised
    /\ Succeeded(adv["claude"])
    /\ Failed(adv["openai"]) /\ adv["openai"].calls = 2
    /\ advisor_results[3] = adv["openai"].result

\* C14 as stated: every outcome collect_feedback returns has exactly one of
\* feedback and error: feedback and no error when successful, an error with its
\* kind and no feedback when failed.
C14_FeedbackXorError ==
    advisor_results # <<>> =>
        \A i \in DOMAIN advisor_results :
            IF advisor_results[i].success
            THEN advisor_results[i].feedback # "" /\ advisor_results[i].error = None
            ELSE advisor_results[i].feedback = "" /\ advisor_results[i].error \in ErrorKinds

\* a step of the pool: the launch puts every advisor's first attempt in flight at
\* once; any other step that touches a coroutine touches one, and takes it where
\* its own state and the end of its own call take it
FirstAttempt == notify_status([IdleTask EXCEPT !.st = "invoking", !.calls = 1], "running")

OneCoroutineStep ==
    LET changed == {a \in AdvisorNames : adv'[a] # adv[a]}
    IN  \/ changed = {}
        \/ \A a \in AdvisorNames : adv'[a] = FirstAttempt
        \/ \E a \in changed :
              /\ changed = {a}
              /\ \/ adv[a].st = "sleeping" /\ adv'[a] = [adv[a] EXCEPT !.st = "invoking",
                                                                      !.calls = @ + 1,
                                                                      !.slept = @ + 1]
                 \/ /\ adv[a].st = "invoking"
                    /\ \E o \in Outcomes : adv'[a] = AfterInvoke(adv[a], a, o, pool_round)

\* C16: all first attempts start together; whatever the other coroutines are
\* doing, a call in flight can return and a sleep can end; a step changes one
\* coroutine only, by its own state and its own call's end.
C16_AdvisorsIndependent ==
    /\ [](\A a \in AdvisorNames :
            /\ adv[a].st = "invoking" => ENABLED InvokeReturns(a, "ok")
            /\ adv[a].st = "sleeping" => ENABLED SleepEnds(a))
    /\ [][OneCoroutineStep]_vars

\* two advisors have ended, one by an exception, while the third is still in the
\* backoff sleep before its third attempt
C16_Witness ==
    /\ finish_order = <<"openai", "gemini">>
    /\ adv["openai"].result = Raised
    /\ Succeeded(adv["gemini"]) /\ adv["gemini"].calls = 2
    /\ adv["claude"].st = "sleeping" /\ adv["claude"].calls = 2

Count(seq, x) == Cardinality({i \in DOMAIN seq : seq[i] = x})

TerminalStatuses == {"complete", "failed"}

\* the notifications of one coroutine, as far as it has come
NotifiedInOrder(t) ==
    /\ t.st = "idle" => t.notified = <<>>
    /\ t.st # "idle" =>
          /\ t.notified[1] = "running"
          /\ Count(t.notified, "running") = 1
          \* one "retrying" before each retry invocation, made or about to be made
          /\ Count(t.notified, "retrying") =
                 IF t.st = "sleeping" THEN t.calls ELSE t.calls - 1
          /\ \A i \in 2..(IF t.st = "sleeping" THEN t.calls + 1 ELSE t.calls) :
                 t.notified[i] = "retrying"
    /\ t.st \in {"invoking", "sleeping"} =>
          \A i \in DOMAIN t.notified : t.notified[i] \notin TerminalStatuses

\* the coroutine has ended: one terminal notification, the last one
NotifiedTerminal(t, success) ==
    /\ Len(t.notified) = t.calls + 1
    /\ t.notified[Len(t.notified)] = IF success THEN "complete" ELSE "failed"

\* C24 as stated: per advisor and call, "running" once before the first
\* invocation, "retrying" once before each retry, and after the last invocation
\* exactly one terminal notification, "complete" iff the outcome returned for the
\* advisor is successful and "failed" otherwise, for every outcome the pool
\* returns.
C24_NotifiedEveryOutcome ==
    /\ \A a \in AdvisorNames : NotifiedInOrder(adv[a])
    /\ advisor_results # <<>> =>
          \A i \in DOMAIN Advisors :
              NotifiedTerminal(adv[Advisors[i]], advisor_results[i].success)

\* the same for the coroutines whose last invocation returned a result (holds)
NotifiedWhenReturned ==
    /\ \A a \in AdvisorNames : NotifiedInOrder(adv[a])
    /\ advisor_results # <<>> =>
          \A i \in DOMAIN Advisors :
              adv[Advisors[i]].result # Raised =>
                  NotifiedTerminal(adv[Advisors[i]], advisor_results[i].success)

\* adapter.invoke calls of one coroutine that have started and not ended
InFlight(t) == t.calls - t.returned

\* the coroutine's calls, returns and sleeps follow one another
Sequential(t) ==
    /\ InFlight(t) \in {0, 1}
    /\ InFlight(t) = 1 <=> t.st = "invoking"
    \* every call but the first started at the end of a sleep
    /\ t.st # "idle" => t.slept = t.calls - 1
    \* every sleep began when a call had returned a failed result
    /\ t.st = "sleeping" =>
          /\ t.returned = t.calls /\ t.slept = t.returned - 1
          /\ t.result \notin {NotReturned, Raised} /\ ~t.result.success
    /\ t.st = "invoking" => t.returned = t.slept

\* C25: within one collect_feedback call at most one invocation of an advisor is
\* in flight at any moment, and a retry starts only after the previous attempt
\* has returned and its backoff sleep has ended.
C25_AttemptsSequential == \A a \in AdvisorNames : Sequential(adv[a])

\* an advisor in its third invocation, after two returned failures and two sleeps
C25_Witness ==
    \E a \in AdvisorNames :
        /\ adv[a].st = "invoking"
        /\ adv[a].calls = 3 /\ adv[a].returned = 2 /\ adv[a].slept = 2
        /\ \E b \in AdvisorNames \ {a} : adv[b].st = "sleeping"

\* the backoff base, in seconds, of the retry-table row of an error kind
BackoffBase(kind) ==
    CASE kind = "RATE_LIMITED" -> 1
      [] kind = "NETWORK_ERROR" -> 3
      [] kind = "TIMEOUT" -> 0

StrictlyIncreasing(seq) == \A i \in DOMAIN seq : i > 1 => seq[i - 1] < seq[i]

\* the sleeps of one coroutine, as far as it has come
SleepSchedule(t) ==
    /\ Len(t.sleeps) <= 3
    \* one sleep before each retry, none before the first attempt, none after the last
    /\ Len(t.sleeps) = (CASE t.st = "idle" -> 0
                          [] t.st = "sleeping" -> t.calls
                          [] OTHER -> t.calls - 1)
    /\ t.st \in {"invoking", "done"} => t.slept = Len(t.sleeps)
    /\ t.sleeps # <<>> =>
          /\ t.first \in {"RATE_LIMITED", "NETWORK_ERROR", "TIMEOUT"}
          /\ \A k \in DOMAIN t.sleeps : t.sleeps[k] = BackoffBase(t.first) * k
          /\ t.first # "TIMEOUT" => StrictlyIncreasing(t.sleeps)
          /\ t.first = "TIMEOUT" => t.sleeps = <<0>>
    /\ (t.st = "done" /\ t.calls = 4) =>
          t.sleeps = (IF t.first = "RATE_LIMITED" THEN <<1, 2, 3>> ELSE <<3, 6, 9>>)

RetriesGranted(kind) ==
    CASE kind = "TIMEOUT" -> 1
      [] kind \in {"RATE_LIMITED", "NETWORK_ERROR"} -> 3
      [] OTHER -> 0

\* the kinds the attempts after the first one of a coroutine may have failed with
\* are not looked at: budget and base are those of the first failure
BudgetByFirstFailure(t) ==
    /\ t.calls <= 4
    /\ t.first \in ErrorKinds => t.calls <= 1 + RetriesGranted(t.first)
    /\ t.calls >= 2 =>
          /\ t.first \in {"TIMEOUT", "RATE_LIMITED", "NETWORK_ERROR"}
          /\ t.max_retries = RetriesGranted(t.first)
          /\ t.backoff = BackoffBase(t.first)
          /\ \A k \in DOMAIN t.sleeps : t.sleeps[k] = BackoffBase(t.first) * k
    /\ (t.first = "TIMEOUT" /\ t.st = "done") => t.calls = 2
    /\ (t.first = "TIMEOUT" /\ t.calls = 2 /\ t.returned = 2) => t.st = "done"

\* C35: the retry budget and the backoff base of an advisor are those of the kind
\* of its first failure: whatever kinds the later attempts fail with, it is
\* invoked at most 1 + max_retries(first kind) times, so at most 4 times in a
\* round, and after a first TIMEOUT exactly once more, also when the retry fails
\* with RATE_LIMITED or NETWORK_ERROR.
C35_BudgetFixedByFirst == \A a \in AdvisorNames : BudgetByFirstFailure(adv[a])

\* a first TIMEOUT, then a retry that failed with NETWORK_ERROR: no third attempt
C35_Witness ==
    /\ adv[Advisors[1]].st = "done"
    /\ adv[Advisors[1]].first = "TIMEOUT"
    /\ Failed(adv[Advisors[1]])
    /\ adv[Advisors[1]].result.error = "NETWORK_ERROR"
    /\ adv[Advisors[1]].calls = 2
    /\ adv[Advisors[1]].sleeps = <<0>>

\* the coroutine's state without the retryable flag of the result it holds
FlagErased(t) ==
    [t EXCEPT !.result = IF Returned(t) THEN [@ EXCEPT !.retryable = FALSE] ELSE @]

\* where the end of a call takes a coroutine is the same for either flag: two
\* coroutines in the same state whose calls end with the same kind go on alike
FlagBlindStep ==
    \A a \in AdvisorNames :
        (adv[a].st = "invoking" /\ adv'[a] # adv[a]) =>
            \E o \in Outcomes \cup {NoErrorObject} :
                \A retryable \in BOOLEAN :
                    FlagErased(adv'[a]) =
                        FlagErased(AfterInvokeWith(adv[a], a, o, retryable, pool_round))

\* the first call of the coroutine has returned a failed result
FirstFailure(t) == t.calls = 1 /\ t.returned = 1 /\ Failed(t)

\* after the first failure the coroutine is in the backoff sleep iff the error has
\* a kind of the retry table, and has ended otherwise
DecidedByKind(t) ==
    FirstFailure(t) =>
        IF t.result.error \in {"TIMEOUT", "RATE_LIMITED", "NETWORK_ERROR"}
        THEN t.st = "sleeping" /\ Len(t.sleeps) = 1
        ELSE t.st = "done" /\ t.sleeps = <<>>

\* a failed outcome that is not retried: the coroutine that holds it has ended
NotRetried(t) == t.st = "done"

\* the attempts and the sleeps do not depend on the flags (holds)
FlagBlind == [][FlagBlindStep]_vars

\* C38 as stated: whether a failed outcome is retried depends on its error kind
\* only, not on its retryable flag: a TIMEOUT flagged retryable = false is
\* retried once, an AUTH_FAILED flagged retryable = true is not retried, and a
\* failed outcome that carries no error object is not retried.
C38_FlagIgnored ==
    \A a \in AdvisorNames :
        /\ DecidedByKind(adv[a])
        /\ (Failed(adv[a]) /\ adv[a].returned = adv[a].calls) =>
              /\ (adv[a].result.error = "AUTH_FAILED" /\ adv[a].result.retryable)
                    => NotRetried(adv[a])
              /\ adv[a].result.error = None => NotRetried(adv[a])

(***************************************************************************)
(* Properties of the run (Spec)                                            *)
(***************************************************************************)
Odd(i) == i % 2 = 1

\* the synthesized plans so far alternate between two different texts
Alternating ==
    \E p, q \in RunPlans :
        /\ p # q
        /\ \A i \in DOMAIN log : log[i].plan = IF Odd(i) THEN p ELSE q

OscillationOutcome ==
    /\ Len(log) <= 3
    /\ final_round <= 3
    /\ \A i \in DOMAIN log :
          log[i].verdict = IF i = 3 THEN "OSCILLATING" ELSE "CONTINUING"
    /\ Len(log) = 3 =>
          /\ pc \in {"finalize", "done"}
          /\ terminal = "OSCILLATING"
          /\ ~converged
    /\ (pc = "done" /\ Len(log) = 3) =>
          /\ meld_result.success
          /\ ~meld_result.converged
          /\ meld_result.rounds_completed = 3

\* C6 as stated: alternating plans and no CONVERGED self-report (a CONTINUING one
\* or none at all) give OSCILLATING at round 3, where the run stops.
C6_NeverConvergedReport ==
    (/\ log # <<>>
     /\ Alternating
     /\ \A i \in DOMAIN log : log[i].report.status # "CONVERGED"
     /\ min_rounds = 1
     /\ max_rounds >= 3) => OscillationOutcome

\* C6 amended: alternating plans and a CONTINUING self-report in every round give
\* CONTINUING at rounds 1 and 2 and OSCILLATING at round 3, where the run stops: no
\* round 4, converged = false, rounds_completed = 3, success = true.
C6_OscillationStops ==
    (/\ log # <<>>
     /\ Alternating
     /\ \A i \in DOMAIN log : log[i].report.status = "CONTINUING"
     /\ min_rounds = 1
     /\ max_rounds >= 3) => OscillationOutcome

\* a run that could have gone to a fourth round returned after the third
C6_Witness ==
    /\ pc = "done"
    /\ max_rounds >= 4
    /\ Len(log) = 3
    /\ Alternating
    /\ \A i \in DOMAIN log : log[i].report.status = "CONTINUING"
    /\ terminal = "OSCILLATING"
    /\ meld_result.rounds_completed = 3
    /\ ~interrupted

\* the first CONVERGED verdict ends the run
ConvergedIsLast ==
    \A i \in DOMAIN log :
        log[i].verdict = "CONVERGED" =>
            /\ i = Len(log)
            /\ final_round = i
            /\ converged
            /\ terminal = "CONVERGED"
            /\ pc \in {"finalize", "done"}
            /\ PoolIdle
            /\ pc = "done" => (meld_result.converged /\ meld_result.rounds_completed = i)

\* CONTINUING with changed plans in rounds 1 and 2, then CONVERGED with 0 changes
\* and 0 open items on an unchanged plan in round 3
ConvergesAtThree ==
    /\ Len(log) >= 3
    /\ log[1].report.status = "CONTINUING" /\ log[1].plan # session.snapshots[1]
    /\ log[2].report.status = "CONTINUING" /\ log[2].plan # log[1].plan
    /\ log[3].report.status = "CONVERGED" /\ log[3].report.changes_made = 0
    /\ log[3].report.open_items = 0 /\ log[3].plan = log[2].plan

\* C7 as stated: the first CONVERGED verdict ends the run, and the run described
\* above returns converged = true, rounds_completed = 3.
C7_ConvergesAtThree ==
    /\ ConvergedIsLast
    /\ (pc = "done" /\ ConvergesAtThree)
          => (meld_result.converged /\ meld_result.rounds_completed = 3)

\* C7 amended: the same, for the run described above provided its round-3 plan is
\* not within a diff ratio of 0.02 of its round-1 plan.
C7_FirstConvergedIsLast ==
    /\ ConvergedIsLast
    /\ (/\ pc = "done"
        /\ ConvergesAtThree
        /\ ~RatioBelow(calculate_diff_ratio(log[3].plan, log[1].plan), OscillationPct))
          => (meld_result.converged /\ meld_result.rounds_completed = 3)

C7_Witness ==
    /\ pc = "done"
    /\ ConvergesAtThree
    /\ max_rounds >= 4
    /\ log[3].verdict = "CONVERGED"
    /\ meld_result.converged
    /\ meld_result.rounds_completed = 3

\* a step of the run itself: a call returns, a sleep ends, or run() moves on
RunStep ==
    \/ \E ok \in BOOLEAN, plan \in InitialPlans : InitialPlanReturns(ok, plan)
    \/ LoopTop
    \/ AdvisorStep({"ok"})
    \/ GatherReturns
    \/ \E plan \in RunPlans, report \in RunReports : SynthesisReturns(TRUE, plan, report)
    \/ Finalize

\* C8: a run that has neither returned nor raised can always take a step while its
\* calls return, and it never starts more than max_rounds rounds; a run whose
\* every verdict was CONTINUING and whose loop did not leave at the interrupt check
\* ran exactly max_rounds rounds and returns converged = false.
C8_MaxRounds ==
    /\ pc \notin {"done", "failed"} => ENABLED RunStep
    /\ final_round <= max_rounds
    /\ Len(log) <= max_rounds
    /\ pc = "done" => meld_result.rounds_completed <= max_rounds
    /\ (/\ pc = "done"
        /\ \A i \in DOMAIN log : log[i].verdict = "CONTINUING"
        /\ terminal # "CANCELLED")
          => /\ Len(log) = max_rounds
             /\ meld_result.rounds_completed = max_rounds
             /\ ~meld_result.converged
             /\ terminal = "MAX_ROUNDS"

C8_Witness ==
    /\ pc = "done"
    /\ max_rounds = 3
    /\ Len(log) = 3
    /\ \A i \in DOMAIN log : log[i].verdict = "CONTINUING"
    /\ terminal = "MAX_ROUNDS"
    /\ meld_result.rounds_completed = 3
    /\ ~meld_result.converged

\* C9: once the flag is set no further round is started, and a round that was in
\* progress when it was set is completed: its synthesis, its convergence check, the
\* adoption of its plan and its snapshot.
C9_InterruptAtRoundTop ==
    interrupted =>
        /\ final_round = interrupted_in.round
        /\ ~PoolIdle => pool_round = interrupted_in.round
        /\ (/\ interrupted_in.pc \in {"collecting", "synthesizing"}
            /\ pc \in {"loop_top", "finalize", "done"})
              => LET r == interrupted_in.round
                 IN  /\ Len(log) = r
                     /\ check.round_number = r
                     /\ check.new_plan = log[r].plan
                     /\ current_plan = log[r].plan
                     /\ Len(session.snapshots) = r + 1
                     /\ session.snapshots[r + 1] = log[r].plan

\* the flag was set during the fan-out of round 1 of a run that would have gone on
C9_Witness ==
    /\ pc = "done"
    /\ interrupted
    /\ interrupted_in = [pc |-> "collecting", round |-> 1]
    /\ max_rounds >= 2
    /\ Len(log) = 1
    /\ log[1].verdict = "CONTINUING"
    /\ terminal = "CANCELLED"
    /\ meld_result.rounds_completed = 1

\* C10 as stated: a run whose loop left at the interrupt check keeps the snapshots
\* of the completed rounds, returns the plan of the last completed round, and what
\* it finally reports and persists records the cancellation, not a completion.
C10_CancelledRecorded ==
    (pc = "done" /\ terminal = "CANCELLED") =>
        /\ Len(session.snapshots) = final_round + 1
        /\ session.final_plan = session.snapshots[final_round + 1]
        /\ meld_result.plan = session.snapshots[final_round + 1]
        /\ session.status = "interrupted"
        /\ session.persisted.status = "interrupted"

\* the stop a caller can read off the returned result, knowing the max_rounds
\* it asked for: the result holds converged and rounds_completed, nothing else
\* on why the loop ended
StopRead ==
    IF meld_result.converged THEN "CONVERGED"
    ELSE IF meld_result.rounds_completed < max_rounds THEN "CANCELLED"
    ELSE "MAX_ROUNDS"

\* C22 as stated: a run that returns ended in exactly one of CONVERGED,
\* OSCILLATING, MAX_ROUNDS, CANCELLED, and the returned result tells which.
C22_ResultIdentifies ==
    pc = "done" =>
        /\ terminal \in {"CONVERGED", "OSCILLATING", "MAX_ROUNDS", "CANCELLED"}
        /\ meld_result.success
        /\ terminal = StopRead

\* the exception holds value v under the name f
Carries(exception, f, v) == f \in DOMAIN exception /\ exception[f] = v

\* C23 as stated: the failure a failed synthesizer call raises to the caller of
\* the run carries the round number at which it occurred and the last plan
\* successfully obtained.
C23_FailureCarriesPlan ==
    (pc = "failed" /\ final_round >= 1) =>
        /\ raised.type = "RuntimeError"
        /\ Carries(raised, "round_number", final_round)
        /\ Carries(raised, "plan", current_plan)

\* the run as the melder's RuntimeError leaves it
AbortedRun ==
    /\ ~ENABLED Next
    /\ meld_result = NoMeldResult
    /\ PoolIdle
    /\ final_round = 0 =>
          /\ fail_budget = MaxRunFailures /\ pool_round = 0
          /\ log = <<>> /\ check = NoCheck
          /\ session.snapshots = <<>>
    /\ final_round >= 1 =>
          /\ round_num = final_round /\ pool_round = final_round
          /\ Len(log) = final_round - 1
          /\ check.round_number < final_round
          /\ Len(plan_history) <= final_round - 1
          /\ Len(session.snapshots) = final_round

\* every way run() leaves an await on the melder: with the call's result, or aborted
MelderAwaitLeft ==
    /\ (pc = "initial_plan" /\ pc' # pc) =>
          \/ pc' = "loop_top" /\ Len(session'.snapshots) = 1
          \/ pc' = "failed" /\ UNCHANGED <<session, pool_vars, detector_vars, log>>
    /\ (pc = "synthesizing" /\ pc' # pc) =>
          \/ Len(log') = Len(log) + 1 /\ check'.round_number = round_num
          \/ pc' = "failed" /\ UNCHANGED <<session, pool_vars, detector_vars, log>>

\* C11: a failed initial-plan generation or synthesis ends the run at once: no
\* result, no further step of any kind (no retry, no advisor call, no later round),
\* and for a synthesis that failed in round r no convergence check of round r.
C11_MelderFailureFatal == [](pc = "failed" => AbortedRun) /\ [][MelderAwaitLeft]_vars

\* the synthesis of round 2 failed in a run that had a third round to go
C11_Witness ==
    /\ pc = "failed"
    /\ final_round = 2
    /\ max_rounds >= 3
    /\ Len(log) = 1
    /\ log[1].verdict = "CONTINUING"

\* the steps that end a phase of the run: each phase hands over to the next one
\* of the state machine, and a phase that has not ended leaves the round counters
\* and the final plan alone
PhaseOrder ==
    /\ (pc = "initial_plan" /\ pc' # pc) =>
          \/ /\ pc' = "loop_top"
             /\ Len(session'.snapshots) = 1 /\ log' = <<>> /\ final_round' = 0
          \/ pc' = "failed"
    /\ (pc = "loop_top" /\ pc' # pc) =>
          \/ /\ pc' = "collecting"
             /\ final_round' = final_round + 1
             /\ pool_round' = final_round'
             /\ \A a \in AdvisorNames : adv'[a].st = "invoking"
             /\ log' = log
          \/ /\ pc' = "finalize"
             /\ terminal' \in {"MAX_ROUNDS", "CANCELLED"}
             /\ final_round' = final_round /\ log' = log
    /\ (pc = "collecting" /\ pc' # pc) =>
          /\ pc' = "synthesizing"
          /\ Len(advisor_results') = Len(Advisors)
          /\ final_round' = final_round /\ log' = log
    /\ (pc = "synthesizing" /\ pc' # pc) =>
          \/ /\ pc' \in {"loop_top", "finalize"}
             /\ Len(log') = Len(log) + 1 /\ Len(log') = final_round
             /\ final_round' = final_round
             /\ check'.round_number = final_round
             /\ check'.new_plan = log'[final_round].plan
             /\ Len(session'.snapshots) = final_round + 1
             /\ pc' = "finalize" <=> check'.result.status \in {"CONVERGED", "OSCILLATING"}
             /\ pc' = "finalize" => terminal' = check'.result.status
          \/ pc' = "failed" /\ log' = log
    /\ (pc = "finalize" /\ pc' # pc) =>
          /\ pc' = "done"
          /\ session.final_plan = NoFile /\ session'.final_plan = current_plan
          /\ session'.persisted.status = "complete"
          /\ meld_result'.returned
    /\ pc \in {"done", "failed"} => pc' = pc
    /\ pc' = pc =>
          /\ log' = log /\ final_round' = final_round
          /\ session'.final_plan = session.final_plan
          /\ check' = check

\* where the run is, against what it has done so far
PhaseState ==
    /\ pc \in {"initial_plan", "loop_top", "collecting", "synthesizing", "finalize",
               "done", "failed"}
    /\ pc \in {"collecting", "synthesizing"} => Len(log) = final_round - 1
    /\ pc \in {"loop_top", "finalize", "done"} => Len(log) = final_round
    /\ pc = "finalize" =>
          /\ ENABLED Finalize
          /\ terminal \in {"CONVERGED", "OSCILLATING", "MAX_ROUNDS", "CANCELLED"}
    /\ session.final_plan # NoFile <=> pc = "done"
    /\ session.status = "complete" <=> pc = "done"
    /\ pc = "failed" => raised.type = "RuntimeError"
    /\ pc \in {"done", "failed"} => ~ENABLED Next

PlanBefore(r) == IF r = 1 THEN session.snapshots[1] ELSE log[r - 1].plan

\* the plan that is current after the rounds completed so far
LastPlan == IF log = <<>> THEN session.snapshots[1] ELSE log[Len(log)].plan

\* C32: in round r the detector is given the plan current at the round's start as
\* old_plan and the round's synthesized plan as new_plan; the synthesized plan
\* becomes current whatever the assessment, so old_plan of round r + 1 is new_plan
\* of round r and old_plan of round 1 is the initial plan; the returned result
\* holds the last synthesized plan (the initial plan when no round ran).
C32_PlanHandover ==
    /\ log # <<>> =>
          /\ check.round_number = Len(log)
          /\ check.new_plan = log[Len(log)].plan
          /\ check.old_plan = PlanBefore(Len(log))
          /\ check.melder_assessment = log[Len(log)].report
          /\ check.result.status = log[Len(log)].verdict
    /\ session.snapshots # <<>> =>
          /\ current_plan = LastPlan
          /\ session.snapshots[Len(session.snapshots)] = LastPlan
    /\ pc = "done" => meld_result.plan = LastPlan

\* the check of round 3, after a round whose CONVERGED self-report was downgraded
\* to CONTINUING on a changed plan, found an oscillation; the run returned the
\* plan of round 3
C32_Witness ==
    /\ pc = "done"
    /\ Len(log) = 3
    /\ log[1].report.status = "CONVERGED" /\ log[1].verdict = "CONTINUING"
    /\ log[1].plan # session.snapshots[1]
    /\ log[3].verdict = "OSCILLATING"
    /\ check.old_plan = log[2].plan /\ check.old_plan # check.new_plan
    /\ meld_result.plan = log[3].plan

\* the last three rounds' synthesized plans are one and the same text
SameThrice ==
    /\ Len(log) >= 3
    /\ log[Len(log)].plan = log[Len(log) - 1].plan
    /\ log[Len(log)].plan = log[Len(log) - 2].plan

\* C34: the oscillation test comes before every convergence rule: the third of
\* three consecutive check_convergence calls (each at or past min_rounds) with
\* the same new_plan returns OSCILLATING with changes_made = 0 and open_items = 0,
\* also for a CONVERGED self-report without open items on an unchanged plan; a run
\* whose plan stays the same for three rounds without having converged earlier
\* ends with converged = false.
C34_OscillationFirst ==
    SameThrice =>
        /\ \A i \in (Len(log) - 2)..Len(log) : i >= min_rounds
        /\ plan_history[Len(plan_history)] = plan_history[Len(plan_history) - 2]
        /\ check.new_plan = log[Len(log)].plan
        /\ check.result.status = "OSCILLATING"
        /\ check.result.changes_made = 0
        /\ check.result.open_items = 0
        /\ log[Len(log)].verdict = "OSCILLATING"
        /\ \A i \in 1..(Len(log) - 1) : log[i].verdict = "CONTINUING"
        /\ terminal = "OSCILLATING"
        /\ ~converged
        /\ pc \in {"finalize", "done"}
        /\ pc = "done" => ~meld_result.converged

\* the plan came back unchanged in rounds 1 to 3, with open items reported in
\* rounds 1 and 2 and CONVERGED without open items in round 3: the run returned
\* converged = false
C34_Witness ==
    /\ pc = "done"
    /\ Len(log) = 3
    /\ \A i \in 1..3 : log[i].plan = session.snapshots[1]
    /\ log[1].report.open_items > 0 /\ log[2].report.open_items > 0
    /\ check.melder_assessment.status = "CONVERGED"
    /\ check.melder_assessment.open_items = 0
    /\ check.old_plan = check.new_plan
    /\ check.result.status = "OSCILLATING"
    /\ ~meld_result.converged
    /\ max_rounds >= 4

\* the synthesis of round final_round has failed
SynthesisFailed == pc = "failed" /\ final_round >= 1

\* the step in which a synthesis raises ends the run and writes nothing to the
\* session
FailureWritesNothing ==
    (pc = "synthesizing" /\ raised' # NoException) =>
        /\ pc' = "failed"
        /\ session' = session
        /\ advisor_results' = advisor_results

AllFailed(results) == \A i \in DOMAIN results : ~results[i].success

\* what synthesize_feedback is called with, while the call is in flight
SynthesisInput ==
    /\ PoolIdle
    /\ Len(log) = final_round - 1
    /\ Len(advisor_results) = Len(Advisors)
    /\ \A i \in DOMAIN advisor_results :
          /\ advisor_results[i].provider = Advisors[i]
          /\ advisor_results[i].round_number = final_round
    /\ LET sections == format_advisor_feedback(advisor_results)
       IN  /\ Len(sections) = Len(Advisors)
           /\ \A i \in DOMAIN sections :
                 /\ sections[i].provider = Advisors[i]
                 /\ sections[i].heading =
                       IF advisor_results[i].success THEN "Feedback" ELSE "(Failed)"

\* the only way out of the fan-out is into the synthesis of the same round, and
\* the only way into a synthesis is out of a finished fan-out
FanOutLeft ==
    /\ (pc = "collecting" /\ pc' # pc) =>
          (pc' = "synthesizing" /\ AllDone /\ final_round' = final_round)
    /\ (pc # "synthesizing" /\ pc' = "synthesizing") => pc = "collecting"

\* C12: whatever the advisors' outcomes, the finished fan-out of a round can go on
\* and goes nowhere but into that round's one synthesis, which is handed all N
\* outcomes in order, failed ones included; a run that returns returns success.
C12_AdvisorFailureNotFatal ==
    /\ [](pc = "collecting" => (ENABLED AdvisorStep({"ok"}) \/ ENABLED GatherReturns))
    /\ [](pc = "synthesizing" => SynthesisInput)
    /\ [](pc = "done" => meld_result.success)
    /\ [][FanOutLeft]_vars

\* every advisor failed in each of three rounds, and the run returned all the same
C12_Witness ==
    /\ pc = "done"
    /\ meld_result.success
    /\ meld_result.rounds_completed = 3
    /\ fail_budget = 0
    /\ all_participants = {}

\* all_participants changes only when a fan-out ends, and then by the advisors
\* whose coroutine ended with a successful result; the MeldResult takes it as it is
ParticipantsStep ==
    /\ all_participants \subseteq all_participants'
    /\ all_participants' =
          IF pc = "collecting" /\ pc' = "synthesizing"
          THEN all_participants \cup {a \in AdvisorNames : Succeeded(adv[a])}
          ELSE all_participants
    /\ (pc # "done" /\ pc' = "done") =>
          meld_result'.advisors_participated = all_participants

\* C15: the participants are exactly the advisors that succeeded in some executed
\* round (the ones a feedback file was written for): the set only grows, by the
\* successful advisors of each fan-out, and a returned run reports and persists it;
\* an advisor that never succeeded is not in it.
C15_ParticipantsExact ==
    /\ [](all_participants = session.advisor_statuses)
    /\ [](pc = "done" =>
            /\ meld_result.advisors_participated = session.advisor_statuses
            /\ session.persisted.advisors_participated = session.advisor_statuses)
    /\ [][ParticipantsStep]_vars

\* three rounds in which one advisor failed every time and the other two did not
C15_Witness ==
    /\ pc = "done"
    /\ meld_result.rounds_completed = 3
    /\ fail_budget = MaxDegradedFailures - 3
    /\ meld_result.advisors_participated = {"claude", "openai"}
    /\ Cardinality(meld_result.advisors_participated) = 2

\* a coroutine that has ended for good: it raised, it succeeded, or it failed with
\* no retry left
TerminalOutcome(t) ==
    /\ t.st = "done"
    /\ \/ t.result = Raised
       \/ Succeeded(t)
       \/ Failed(t) /\ t.calls = CallLimit(t.first)

SynthesisStarts ==
    (pc # "synthesizing" /\ pc' = "synthesizing") =>
        /\ \A a \in AdvisorNames : TerminalOutcome(adv[a]) /\ adv'[a] = IdleTask
        /\ pool_round = final_round /\ final_round' = final_round

\* C17: a synthesis starts only when each of the N coroutines of its round has
\* ended for good, and while it is in flight no attempt and no sleep is: as long as
\* one coroutine has not ended, the fan-out cannot be left.
C17_NoPartialFanIn ==
    /\ [](pc = "synthesizing" =>
            \A a \in AdvisorNames : adv[a].st \notin {"invoking", "sleeping"})
    /\ []((pc = "collecting" /\ \E a \in AdvisorNames : adv[a].st # "done")
            => ~ENABLED GatherReturns)
    /\ [][SynthesisStarts]_vars

\* the last coroutine to end: two have ended, by an exception and by a failure
\* without retry, and the third is asleep before its retry; no synthesis yet
C17_Witness ==
    /\ pc = "collecting"
    /\ final_round = 2
    /\ adv["claude"].result = Raised /\ adv["claude"].st = "done"
    /\ Failed(adv["gemini"]) /\ adv["gemini"].st = "done"
    /\ adv["openai"].st = "sleeping"

\* rounds 1..Len(log) are complete and nothing of a later round has been written
AfterRound == Len(log) >= 1 /\ pc \in {"loop_top", "collecting", "finalize", "done"}

HandlerAndSaveDone == interrupted /\ data = NoData

\* C39 as stated: wherever the handler's mark_interrupted runs, also in the middle
\* of a save in progress, once the handler and the interrupted save have both
\* finished the persisted record has status 'interrupted' with interrupted_at
\* set: a save that started earlier does not write 'running' back over it.
C39_InterruptedSticks ==
    HandlerAndSaveDone =>
        /\ session.persisted.status = "interrupted"
        /\ session.persisted.interrupted_at

(***************************************************************************)
(* Properties of the resumed run (ResumeSpec)                              *)
(***************************************************************************)
ResumedRun == session.resume_id

\* the step that constructs the Orchestrator with resume_id leaves run() where
\* a fresh Orchestrator's run() starts
StartsAsFresh ==
    (~ResumedRun /\ ResumedRun') =>
        /\ pc' = "initial_plan"
        /\ round_num' = 0 /\ final_round' = 0
        /\ current_plan' = PlanE
        /\ all_participants' = {}
        /\ ~converged' /\ ~interrupted'
        /\ plan_history' = <<>>

\* the resumed run's first step: a generated plan, written as round 0
FirstPlanIsRoundZero ==
    (ResumedRun /\ pc = "initial_plan" /\ pc' = "loop_top") =>
        /\ current_plan' \in InitialPlans
        /\ session'.snapshots[1] = current_plan'
        /\ session'.current_round = 0
        /\ session'.persisted.current_round = 0
        /\ round_num' = 1
        /\ all_participants' = {}
        /\ plan_history' = <<>>

\* in its rounds the resumed run counts from 1: the history and the session's
\* current round hold what this run has done
CountsItsOwnRounds ==
    (ResumedRun /\ pc \in {"loop_top", "collecting", "synthesizing"}) =>
        /\ Len(plan_history) = round_num - 1
        /\ session.current_round = round_num - 1
        /\ round_num <= max_rounds + 1

\* and it ends with its own rounds and participants
EndsWithItsOwn ==
    (ResumedRun /\ pc = "done") =>
        /\ session.persisted.rounds_completed = final_round
        /\ final_round <= max_rounds
        /\ session.persisted.advisors_participated = all_participants
        /\ session.final_plan = current_plan

====
